---- MODULE Spec2Model ----
(***************************************************************************)
(* Model of timeweaver (twtw): the entry-creation flow of                  *)
(* twtw/state/entry.py, the `log create` builder of twtw/app/log.py, the   *)
(* commit distribution of twtw/app/log.py and twtw/state/commit.py, the    *)
(* entries source of twtw/models/abc.py, the tracker flow of               *)
(* twtw/state/commit.py and the commit iteration of twtw/models/models.py. *)
(***************************************************************************)
EXTENDS Integers, Sequences, FiniteSets, TLC

\* ------------------------------------------------------------------ bounds
NEntries == 2     \* raw entries held by the tracker export / the CSV file
MaxRuns == 2      \* invocations of the tool over the same tracker data
MaxTime == 3      \* instants 0..MaxTime of the distribution's time grid
MaxChosen == 2    \* entries chosen for one commit distribution
MaxCommits == 5   \* candidate commits of one repository
MaxLoaded == 3    \* raw entries a loader returns
MaxDepth == 2     \* projects on a parent chain, the project itself included
MaxLog == 3       \* commits in a repository's git log
MaxBatch == 2     \* batch_size and unlogged_context of iter_commits_by_author
MaxParse == 2     \* CommitEntry objects parse_commit constructs for one commit
MaxSegments == 3  \* dotted segments of a project name
MaxDays == 1      \* whole days an entry's duration may exceed
MaxValues == 2    \* distinct values `config set` is given for a key
MaxDocs == 3      \* documents of a table of the document store
MaxTagArgs == 2   \* values one add_tags call is given
MaxNext == 2      \* "next" events the tracker flow's SAVE step dispatches
MaxRepos == 2     \* repositories chosen in one log create run

Entries == 1..NEntries

\* ------------------------------------------------- flow states and flags
CreateFlowState == {"INIT", "ENTRIES", "REPOS", "COMMITS", "DRAFT", "SAVE", "CANCEL"}

FlowModifier ==
    {"ENTRIES_AVAILABLE", "ENTRIES_SELECTED", "REPOS_AVAILABLE", "REPOS_SELECTED",
     "COMMITS_AVAILABLE", "COMMITS_SELECTED", "DRY_RUN"}

HAS_ENTRIES == {"ENTRIES_AVAILABLE", "ENTRIES_SELECTED"}

EntryStates == {"init", "invalid", "skipped", "draft", "published", "complete"}

\* What the remote service does with one POST: answers STATUS "OK", answers
\* another STATUS, or the request fails (HTTP error status, network fault).
Outcomes == {"OK", "ERR", "FAULT"}

VARIABLES
    state,        \* the flow machine's state (CreateFlowState)
    flags,        \* context.flags, a set of FlowModifier members
    models,       \* context.models / entry_machine.models, in load order
    err,          \* the exception the last handler raised to its caller
    cancelled,    \* the flow has entered CANCEL during this run
    confirmed,    \* the answer to confirm_drafts' prompt: "none", "yes", "no"
    committing,   \* commit_drafts has run during this run
    resp,         \* the remote's answer to each request sent during this run
    attempted,    \* entries for which a create request was sent this run
    offered,      \* entries the user could select this run
    remote,       \* per source and entry: time entries created remotely
    store,        \* per source: entries whose LogEntry is persisted
    logged,       \* tracker entries carrying the "logged" tag
    run,          \* number of invocations so far
    mode          \* the command of this run: "flow" (CSV flow) or "log" (log create)

flowVars == <<state, flags, models, err, cancelled, confirmed, committing, resp,
              attempted, offered, remote, store, logged, run, mode>>

VARIABLES
    d_entries,      \* the chosen entries of a distribution, in input order
    d_commits,      \* the pool of candidate commits, in git-log order
    entry_commits,  \* the buckets: per chosen entry, the commits it received
    d_taken,        \* per chosen entry, the commits it took as its share
    d_err,          \* the exception the distribution raised
    d_by,           \* which distribution has run: "none", "builder", "flow"
    d_attached      \* per chosen entry, the commits of its log entry once the
                    \* tracker flow's create_drafts has attached them

distVars == <<d_entries, d_commits, entry_commits, d_taken, d_err, d_by, d_attached>>

VARIABLES
    loader,         \* the raw entries the loader returns, in load order
    source,         \* the EntriesSource: its entries and its loaded flag
    unlogged,       \* the cached value of unlogged_entries ("unset" before)
    by_project      \* the value of unlogged_by_project last computed

srcVars == <<loader, source, unlogged, by_project>>

VARIABLES
    tw_state,       \* the tracker flow machine's state (CreateFlowState)
    tw_flags,       \* the tracker flow's context.flags
    tw_models,      \* the tracker flow's entry models, in load order
    tw_err          \* the exception the tracker flow's last handler raised

twVars == <<tw_state, tw_flags, tw_models, tw_err>>

VARIABLES
    drafted         \* tracker entries carrying a drafted:<id> tag: the remote
                    \* holds the time entry <id> of an earlier, unfinished run

VARIABLES
    c_saved,        \* commits contained in a LogEntry that has been saved
    c_logged,       \* commits whose CommitEntry has logged = true
    project         \* the builder's project and its ancestors, nearest first:
                    \* whether each has a teamwork_project of its own

tagVars == <<drafted, c_saved, c_logged, project>>

\* The candidate commits of the project's repository.
RepoCommits == {"c1", "c2"}

VARIABLES
    git_log,        \* the commits of a repository's log, newest first
    c_yielded,      \* what iter_commits_by_author has yielded
    c_offered,      \* the choices of the builder's commit prompt
    c_pool,         \* the builder's distribution pool
    c_err,          \* the exception choose_commits raised
    c_done,         \* which of the commit steps have run
    c_args          \* the keyword arguments iter_commits_by_author was called with

commitVars == <<git_log, c_yielded, c_offered, c_pool, c_err, c_done, c_args>>

VARIABLES
    ce_table,       \* the commitentry table: the committed rows, in id order
    ce_pending,     \* CommitEntry objects added to the caller's session and
                    \* not yet committed
    ce_created,     \* per sha: how many CommitEntry objects were constructed
    ce_first,       \* per sha: the logged value parse_commit returned first, if any
    ce_ret          \* what the last parse_commit call returned

ceVars == <<ce_table, ce_pending, ce_created, ce_first, ce_ret>>

VARIABLES
    p_table,        \* the project table: per project name, its row
    p_last,         \* the last project command and the name it was given
    p_err           \* the exception the last project command raised

pjVars == <<p_table, p_last, p_err>>

VARIABLES
    te_secs,        \* the duration of a closed entry, end - start, in seconds
    te_req          \* the request built from it: <<>> before, then <<body>>

teVars == <<te_secs, te_req>>

VARIABLES
    cfg_table,      \* the Config table of the document store, in insertion order
    cfg_last,       \* per PROFILE: the data of the last save, if any
    tm_table,       \* the table of a model that keeps TableModel.query
    tm_last         \* the last `modify`: the name it was given and what it saved

docVars == <<cfg_table, cfg_last, tm_table, tm_last>>

VARIABLES
    ex_data,        \* the records of `timew export`, in export order
    ex_filters,     \* the filters handed to TimeWarriorLoader.load
    ex_out          \* what load yielded and the exception that ended it

exVars == <<ex_data, ex_filters, ex_out>>

VARIABLES
    tg_self,        \* the tags of the raw entry a tag method is called on
    tg_cmds,        \* the timew commands issued, in order
    tg_call,        \* the last tag method called and its values
    tg_ret          \* the tags of the entry it returned: <<>> before, then <<tags>>

tgVars == <<tg_self, tg_cmds, tg_call, tg_ret>>

VARIABLES
    results,        \* the entries ticked in the CSV flow's choose_entries prompt
    tw_results      \* the entries ticked in the tracker flow's choose_entries prompt

selVars == <<results, tw_results>>

\* The variables of the flows, the distribution and the commit steps, and
\* those of the persistence layer.
coreVars == <<flowVars, distVars, srcVars, twVars, tagVars, commitVars>>

\* The persistence layer and the tag methods.
storeVars == <<ceVars, pjVars, teVars, docVars, exVars, tgVars>>

extVars == <<storeVars, selVars>>

\* What the steps of one part of the persistence layer leave alone.
ceFrame == <<coreVars, pjVars, teVars, docVars, exVars, tgVars, selVars>>

pjFrame == <<coreVars, ceVars, teVars, docVars, exVars, tgVars, selVars>>

teFrame == <<coreVars, ceVars, pjVars, docVars, exVars, tgVars, selVars>>

docFrame == <<coreVars, ceVars, pjVars, teVars, exVars, tgVars, selVars>>

exFrame == <<coreVars, ceVars, pjVars, teVars, docVars, tgVars, selVars>>

tgFrame == <<coreVars, ceVars, pjVars, teVars, docVars, exVars, selVars>>

vars == <<coreVars, extVars>>

Sources == {"csv", "timew"}

\* ---------------------------------------------------------- the flag guards
dry_run(fl) == "DRY_RUN" \in fl

has_entries(fl) == fl \cap HAS_ENTRIES # {}

are_repos_available(fl) == "REPOS_AVAILABLE" \in fl

\* dry_run.setter: a true value ORs DRY_RUN in, a false value ORs ~DRY_RUN in.
SetFlagDryRun(fl, value) ==
    IF value THEN fl \cup {"DRY_RUN"} ELSE fl \cup (FlowModifier \ {"DRY_RUN"})

\* -------------------------------------------------- the per-entry sub-machine
\* EntryContext.create_model: a new EntryFlowModel in the machine's initial state.
\* model_flags is context.flags | context.flags at creation.
create_model(id, hp, fl) ==
    [id |-> id, st |-> "init", has_project |-> hp, model_flags |-> fl,
     log_entry |-> FALSE, teamw_response |-> "none"]

\* EntryFlowModel.dry_run: DRY_RUN in context.flags | model_flags.  The _ro
\* variant reads the model's own flags alone.
model_dry_run_ro(fl, mf) == "DRY_RUN" \in mf

model_dry_run(fl, mf) == "DRY_RUN" \in (fl \cup mf)

\* trigger "validate": to invalid unless has_project, else a reflexive transition.
\* The _reflexive form takes the reflexive transition for every model.
validate_reflexive(m) == m

validate(m) == IF ~m.has_project THEN [m EXCEPT !.st = "invalid"] ELSE m

\* trigger "skip": from every state to skipped.
skip(m) == [m EXCEPT !.st = "skipped"]

\* TeamworkApi._validate_time_entry_response: any STATUS but "OK" raises.
validate_time_entry_response(r) == IF r # "OK" THEN "RuntimeError" ELSE "none"

\* TeamworkApi.create_time_entry: POST (HttpClient.post raises on an HTTP error
\* status or a transport fault), then the response is validated.
create_time_entry(r) ==
    IF r = "FAULT" THEN "HTTPError" ELSE validate_time_entry_response(r)

\* EntryFlowModel.commit_entry, run after the entry has entered published: the
\* request is sent; an error of the client propagates, a STATUS other than "OK"
\* raises, and only an "OK" response is kept in teamw_response.
commit_entry(m, r) ==
    LET e == create_time_entry(r) IN
    IF e # "none" THEN [m |-> m, posted |-> FALSE, err |-> e]
    ELSE IF r # "OK" THEN [m |-> m, posted |-> FALSE, err |-> "RuntimeError"]
    ELSE [m |-> [m EXCEPT !.teamw_response = "OK"], posted |-> TRUE, err |-> "none"]

\* trigger "next" on one entry model: the first transition of the model's state
\* whose conditions pass is taken; fl is context.flags, r the remote's answer
\* if a request is sent.
NextEvent(m, fl, r) ==
    LET dry == model_dry_run(fl, m.model_flags)
        quiet(n) == [m |-> n, posted |-> FALSE, sent |-> FALSE, saved |-> FALSE,
                     err |-> "none"]
    IN CASE m.st = "skipped" -> quiet(m)
         [] m.st = "init" ->
                IF ~m.has_project THEN quiet([m EXCEPT !.st = "invalid"])
                ELSE quiet([m EXCEPT !.st = "draft", !.log_entry = TRUE])
         [] m.st = "invalid" -> quiet(m)
         [] m.st = "draft" ->
                IF ~dry
                THEN LET c == commit_entry([m EXCEPT !.st = "published"], r)
                     IN [m |-> c.m, posted |-> c.posted, sent |-> TRUE,
                         saved |-> FALSE, err |-> c.err]
                ELSE quiet([m EXCEPT !.st = "complete"])
         [] m.st = "published" ->
                [m |-> [m EXCEPT !.st = "complete"], posted |-> FALSE,
                 sent |-> FALSE, saved |-> TRUE, err |-> "none"]
         [] OTHER ->
                [m |-> m, posted |-> FALSE, sent |-> FALSE, saved |-> FALSE,
                 err |-> "MachineError"]

\* Machine.dispatch("next"): the event is triggered on the models in order; an
\* exception raised by one model's callback ends the dispatch.
RECURSIVE DispatchNext(_, _, _, _)
DispatchNext(i, acc, fl, rs) ==
    IF i > Len(acc.models) \/ acc.err # "none" THEN acc
    ELSE LET m == acc.models[i]
             n == NextEvent(m, fl, rs[m.id])
         IN DispatchNext(i + 1,
                [models |-> [acc.models EXCEPT ![i] = n.m],
                 remote |-> IF n.posted THEN [acc.remote EXCEPT ![m.id] = @ + 1]
                            ELSE acc.remote,
                 store |-> IF n.saved THEN acc.store \cup {m.id} ELSE acc.store,
                 attempted |-> IF n.sent THEN acc.attempted \cup {m.id}
                               ELSE acc.attempted,
                 err |-> n.err],
                fl, rs)

\* CSVRawEntry.is_logged is constantly false and every CSV row read has an end.
csv_is_logged(id) == FALSE

\* EntriesSource.unlogged_entries of the CSV source: the rows in file order that
\* are neither logged nor active.
RECURSIVE csv_unlogged_entries(_)
csv_unlogged_entries(n) ==
    IF n = 0 THEN <<>>
    ELSE IF csv_is_logged(n) THEN csv_unlogged_entries(n - 1)
         ELSE Append(csv_unlogged_entries(n - 1), n)

\* CSVCreateEntryFlow.prepare_entries: one model per unlogged entry, then
\* "validate" is dispatched to all of them.
prepare_entries(hp, fl) ==
    LET targets == csv_unlogged_entries(NEntries)
    IN [i \in 1..Len(targets) |-> validate(create_model(targets[i], hp[targets[i]], fl))]

\* CSVCreateEntryFlow.commit_drafts: "next" is dispatched once, and once more
\* unless the flow is a dry run.  The _twice variant dispatches it twice
\* whatever the mode.
commit_drafts_twice(ms, fl, rs, rem, sto) ==
    LET a0 == [models |-> ms, remote |-> rem, store |-> sto, attempted |-> {},
               err |-> "none"]
        d1 == DispatchNext(1, a0, fl, rs)
    IN IF d1.err # "none" THEN d1
       ELSE DispatchNext(1, d1, fl, rs)

commit_drafts(ms, fl, rs, rem, sto) ==
    LET a0 == [models |-> ms, remote |-> rem, store |-> sto, attempted |-> {},
               err |-> "none"]
        d1 == DispatchNext(1, a0, fl, rs)
    IN IF dry_run(fl) \/ d1.err # "none" THEN d1
       ELSE DispatchNext(1, d1, fl, rs)

\* ------------------------------------------------------ the flow's handlers
\* The answers the remote has given this run: those to the requests sent.
NoAnswers == [e \in Entries |-> "none"]

\* The remote's possible answers when only the entries of S can be requested
\* (an entry that is never requested has no answer to vary).
Requests(S, sending) ==
    {rs \in [Entries -> Outcomes] :
        \A e \in Entries : (e \notin S \/ ~sending) => rs[e] = "OK"}

Answers(rs, sent) == [e \in Entries |-> IF e \in sent THEN rs[e] ELSE "none"]

Selectable(ms) == {ms[i].id : i \in {j \in 1..Len(ms) : ms[j].st # "invalid"}}

\* CSVCreateEntryFlow.choose_entries after a non-empty selection: every model
\* that is not invalid and not among the results is skipped.  The _none form
\* skips no model.
skip_unselected_none(ms, sel) == ms

skip_unselected(ms, sel) ==
    [i \in 1..Len(ms) |->
        IF ms[i].st # "invalid" /\ ms[i].id \notin sel THEN skip(ms[i]) ELSE ms[i]]

\* CSVCreateEntryFlow.create_drafts: "next" dispatched to every entry model.
create_drafts(ms, fl, rs, rem, sto) ==
    DispatchNext(1, [models |-> ms, remote |-> rem, store |-> sto,
                     attempted |-> {}, err |-> "none"], fl, rs)

\* CSVCreateEntryFlow.confirm_drafts, the before-callback of DRAFT -> SAVE: TRUE
\* when it fires the cancel event (not a dry run, and the user declines).
confirm_drafts(fl, answer) == ~dry_run(fl) /\ ~answer

Alive == err = "none" /\ mode = "flow"

\* start: INIT -> ENTRIES (prepare load_context, before prepare_entries, after
\* choose_entries).  hp: which entries match a project; sel: the user's choice.
Start(hp, sel) ==
    /\ Alive /\ state = "INIT"
    /\ LET ms == prepare_entries(hp, {"ENTRIES_AVAILABLE"})
       IN /\ sel \subseteq Selectable(ms)
          /\ offered' = Selectable(ms)
          /\ IF sel = {}
             THEN /\ state' = "CANCEL"
                  /\ cancelled' = TRUE
                  /\ models' = ms
                  /\ flags' = {"ENTRIES_AVAILABLE"}
             ELSE /\ state' = "ENTRIES"
                  /\ cancelled' = cancelled
                  /\ models' = skip_unselected(ms, sel)
                  /\ flags' = {"ENTRIES_AVAILABLE", "ENTRIES_SELECTED"}
    /\ results' = sel
    /\ UNCHANGED <<err, confirmed, committing, resp, attempted, remote, store,
                   logged, run, mode>>
    /\ UNCHANGED <<distVars, srcVars, twVars, tagVars, commitVars, storeVars, tw_results>>

\* choose in ENTRIES: the transitions are tried in the order they were added.
ChooseEntries ==
    /\ Alive /\ state = "ENTRIES"
    /\ IF ~has_entries(flags)
       THEN \* ENTRIES -> CANCEL, after "cancel": the trigger is called with the
            \* event as argument, and do_cancel joins its arguments as strings.
            /\ state' = "CANCEL" /\ cancelled' = TRUE /\ err' = "TypeError"
            /\ UNCHANGED models
       ELSE IF are_repos_available(flags)
       THEN \* ENTRIES -> REPOS, after do_prompt
            /\ state' = "REPOS"
            /\ UNCHANGED <<cancelled, err, models>>
       ELSE \* ENTRIES -> DRAFT, before create_drafts, after review_drafts
            LET d == create_drafts(models, flags, resp, remote["csv"], store["csv"])
            IN /\ state' = "DRAFT"
               /\ models' = d.models
               /\ err' = d.err
               /\ UNCHANGED cancelled
    /\ UNCHANGED <<flags, confirmed, committing, resp, attempted, offered, remote,
                   store, logged, run, mode>>
    /\ UNCHANGED <<distVars, srcVars, twVars, tagVars, commitVars, extVars>>

\* choose in REPOS: the first transition's condition has_chosen_repos is not an
\* attribute of the flow, so resolving it raises.
ChooseRepos ==
    /\ Alive /\ state = "REPOS"
    /\ err' = "AttributeError"
    /\ UNCHANGED <<state, flags, models, cancelled, confirmed, committing, resp,
                   attempted, offered, remote, store, logged, run, mode>>
    /\ UNCHANGED <<distVars, srcVars, twVars, tagVars, commitVars, extVars>>

\* choose in DRAFT: DRAFT -> SAVE (before confirm_drafts, after commit_drafts).
\* answer: the user's reply to the prompt; rs: the remote's answers.
ChooseDraft(answer, rs) ==
    /\ Alive /\ state = "DRAFT"
    /\ rs \in Requests({models[i].id : i \in {j \in DOMAIN models : models[j].st = "draft"}},
                      ~dry_run(flags))
    /\ dry_run(flags) => answer
    /\ LET fired == confirm_drafts(flags, answer)
           d == commit_drafts(models, flags, rs, remote["csv"], store["csv"])
       IN /\ cancelled' = (cancelled \/ fired)
          /\ confirmed' = IF dry_run(flags) THEN confirmed
                          ELSE IF answer THEN "yes" ELSE "no"
          \* Transition.execute sets the state to dest once the before-callbacks
          \* have returned, whatever state they left the machine in.
          /\ state' = "SAVE"
          /\ committing' = TRUE
          /\ resp' = Answers(rs, d.attempted)
          /\ models' = d.models
          /\ remote' = [remote EXCEPT !["csv"] = d.remote]
          /\ store' = [store EXCEPT !["csv"] = d.store]
          /\ attempted' = d.attempted
          /\ err' = d.err
    /\ UNCHANGED <<flags, offered, logged, run, mode>>
    /\ UNCHANGED <<distVars, srcVars, twVars, tagVars, commitVars, extVars>>

\* cancel: from every state to CANCEL, after do_cancel.
Cancel ==
    /\ Alive
    /\ state' = "CANCEL"
    /\ cancelled' = TRUE
    /\ UNCHANGED <<flags, models, err, confirmed, committing, resp, attempted,
                   offered, remote, store, logged, run, mode>>
    /\ UNCHANGED <<distVars, srcVars, twVars, tagVars, commitVars, extVars>>

\* flow.dry_run = value; the context exists once load_context has run.
SetDryRun(value) ==
    /\ Alive
    /\ IF state = "INIT"
       THEN err' = "AttributeError" /\ UNCHANGED flags
       ELSE flags' = SetFlagDryRun(flags, value) /\ UNCHANGED err
    /\ flags' # flags \/ err' # err
    /\ UNCHANGED <<state, models, cancelled, confirmed, committing, resp,
                   attempted, offered, remote, store, logged, run, mode>>
    /\ UNCHANGED <<distVars, srcVars, twVars, tagVars, commitVars, extVars>>

\* An event with no transition from the current state raises MachineError.
InvalidTrigger(ev) ==
    /\ Alive
    /\ \/ ev = "start" /\ state # "INIT"
       \/ ev = "choose" /\ state \in {"INIT", "SAVE", "CANCEL"}
    /\ err' = "MachineError"
    /\ UNCHANGED <<state, flags, models, cancelled, confirmed, committing, resp,
                   attempted, offered, remote, store, logged, run, mode>>
    /\ UNCHANGED <<distVars, srcVars, twVars, tagVars, commitVars, extVars>>

\* ------------------------------------------------ log create (EntryBuilder)
\* EntryBuilder.resolve_entries: the unlogged entries of the project, reversed.
RECURSIVE resolve_entries(_, _)
resolve_entries(n, lg) ==
    IF n = 0 THEN <<>>
    ELSE IF n \in lg THEN resolve_entries(n - 1, lg)
         ELSE <<n>> \o resolve_entries(n - 1, lg)

SelectSeq2(seq, S) == SelectSeq(seq, LAMBDA x : x \in S)

\* Project.resolve_teamwork_project over the chain: the project's own
\* teamwork_project, else its parent's resolution, else None (FALSE).
RECURSIVE resolve_teamwork_project(_)
resolve_teamwork_project(chain) ==
    IF chain = <<>> THEN FALSE
    ELSE IF chain[1] THEN TRUE
    ELSE resolve_teamwork_project(Tail(chain))

ProjectChains == UNION {[1..n -> BOOLEAN] : n \in 1..MaxDepth}

\* EntryBuilder._commit_entry for one log entry; acc carries the remote, the
\* local store and the tracker's logged tags; tp is whether the project
\* resolves to a remote project.  The endpoint is formatted from
\* tw_project.project_id before the dry-run test and before the request.
builder_commit_entry(e, acc, dry, r, tp) ==
    IF ~tp THEN [acc EXCEPT !.err = "AttributeError"]
    ELSE IF dry THEN [acc EXCEPT !.err = "AttributeError"]
    ELSE IF r = "FAULT"
    THEN [acc EXCEPT !.attempted = @ \cup {e}, !.err = "HTTPError"]
    ELSE IF r = "OK"
    THEN [acc EXCEPT !.attempted = @ \cup {e}, !.remote[e] = @ + 1,
                     !.store = @ \cup {e}, !.logged = @ \cup {e}]
    ELSE [acc EXCEPT !.attempted = @ \cup {e}]

\* EntryBuilder.commit_all: the log entries in order; an exception ends the loop.
RECURSIVE commit_all(_, _, _, _, _, _)
commit_all(es, i, acc, dry, rs, tp) ==
    IF i > Len(es) \/ acc.err # "none" THEN acc
    ELSE commit_all(es, i + 1,
                    builder_commit_entry(es[i], acc, dry, rs[es[i]], tp), dry, rs, tp)

\* do_create in replicate mode: choose entries, build the log entries, ask
\* "Commit all entries?" and commit them if the answer is yes.
LogCreate(sel, cs, do_commit, dry, rs) ==
    /\ mode = "log" /\ err = "none" /\ confirmed = "none"
    /\ cs # {} => (do_commit /\ ~dry /\ sel # {})
    /\ rs \in Requests(sel, do_commit /\ ~dry /\ resolve_teamwork_project(project))
    /\ \E entries \in {resolve_entries(NEntries, logged)} :
          /\ sel \subseteq {entries[i] : i \in 1..Len(entries)}
          /\ offered' = {entries[i] : i \in 1..Len(entries)}
          /\ \E chosen \in {SelectSeq2(entries, sel)} :
                /\ models' = [i \in 1..Len(chosen) |->
                                 [create_model(chosen[i], TRUE, {}) EXCEPT !.log_entry = TRUE]]
                /\ \E d \in {IF do_commit
                              THEN commit_all(chosen, 1,
                                       [remote |-> remote["timew"], store |-> store["timew"],
                                        logged |-> logged, attempted |-> {}, err |-> "none"],
                                       dry, rs, resolve_teamwork_project(project))
                              ELSE [remote |-> remote["timew"], store |-> store["timew"],
                                    logged |-> logged, attempted |-> {}, err |-> "none"]} :
                      \* _create_entry gives every log entry the chosen commits;
                      \* nothing assigns CommitEntry.logged.
                      /\ (d.store = store["timew"]) => cs = {}
                      /\ c_saved' = IF d.store # store["timew"] THEN c_saved \cup cs
                                    ELSE c_saved
                      /\ resp' = Answers(rs, d.attempted)
                      /\ remote' = [remote EXCEPT !["timew"] = d.remote]
                      /\ store' = [store EXCEPT !["timew"] = d.store]
                      /\ logged' = d.logged
                      /\ attempted' = d.attempted
                      /\ err' = d.err
    /\ confirmed' = IF do_commit THEN "yes" ELSE "no"
    /\ committing' = do_commit
    /\ flags' = IF dry THEN {"DRY_RUN"} ELSE {}
    /\ UNCHANGED <<state, cancelled, run, mode>>
    /\ UNCHANGED <<distVars, srcVars, twVars, drafted, c_logged, project, commitVars, extVars>>

\* EntryBuilder.distribute_commits, a generator: without repositories it
\* returns before its first yield; otherwise one copy of the builder per chosen
\* repository and chosen entry, the repositories in the outer loop.  The
\* result lists the one entry of every copy.
RECURSIVE builder_distribute_commits(_, _)
builder_distribute_commits(chosen, nrepos) ==
    IF nrepos = 0 THEN <<>>
    ELSE chosen \o builder_distribute_commits(chosen, nrepos - 1)

\* do_create in distribute mode: choose entries and repositories, distribute
\* the commits of every chosen repository (which divides by the total duration
\* of the chosen entries), build one log entry per copy, ask "Commit all
\* entries?" and commit every copy if the answer is yes.  nrepos: the chosen
\* repositories; zero: the chosen entries have no duration.
LogCreateDistribute(sel, nrepos, zero, cs, do_commit, dry, rs) ==
    /\ mode = "log" /\ err = "none" /\ confirmed = "none"
    /\ cs # {} => (do_commit /\ ~dry /\ sel # {} /\ nrepos > 0)
    /\ zero => nrepos > 0
    /\ rs \in Requests(sel, do_commit /\ ~dry /\ nrepos > 0
                             /\ resolve_teamwork_project(project))
    /\ \E entries \in {resolve_entries(NEntries, logged)} :
          /\ sel \subseteq {entries[i] : i \in 1..Len(entries)}
          /\ offered' = {entries[i] : i \in 1..Len(entries)}
          /\ \E chosen \in {SelectSeq2(entries, sel)} :
             \E idle \in {[remote |-> remote["timew"], store |-> store["timew"],
                           logged |-> logged, attempted |-> {}, err |-> "none"]} :
             \E builds \in {builder_distribute_commits(chosen, nrepos)} :
                /\ models' = [i \in 1..Len(builds) |->
                                 [create_model(builds[i], TRUE, {}) EXCEPT !.log_entry = TRUE]]
                /\ \E d \in {IF nrepos > 0 /\ (zero \/ chosen = <<>>)
                              THEN [idle EXCEPT !.err = "ZeroDivisionError"]
                              ELSE IF do_commit
                              THEN commit_all(builds, 1, idle, dry, rs,
                                              resolve_teamwork_project(project))
                              ELSE idle} :
                      /\ (d.store = store["timew"]) => cs = {}
                      /\ c_saved' = IF d.store # store["timew"] THEN c_saved \cup cs
                                    ELSE c_saved
                      /\ resp' = Answers(rs, d.attempted)
                      /\ remote' = [remote EXCEPT !["timew"] = d.remote]
                      /\ store' = [store EXCEPT !["timew"] = d.store]
                      /\ logged' = d.logged
                      /\ attempted' = d.attempted
                      /\ err' = d.err
                      /\ confirmed' = IF d.err = "ZeroDivisionError" THEN "none"
                                      ELSE IF do_commit THEN "yes" ELSE "no"
                      /\ committing' = (do_commit /\ d.err # "ZeroDivisionError")
    /\ flags' = IF dry THEN {"DRY_RUN"} ELSE {}
    /\ UNCHANGED <<state, cancelled, run, mode>>
    /\ UNCHANGED <<distVars, srcVars, twVars, drafted, c_logged, project, commitVars, extVars>>

\* ------------------------------------------------------ commit distribution
Times == 0..MaxTime

Min(a, b) == IF a <= b THEN a ELSE b

Reverse(sq) == [i \in 1..Len(sq) |-> sq[Len(sq) + 1 - i]]

\* sorted(): a stable sort of <<key, item>> pairs by ascending key, as an
\* insertion sort: a pair goes behind every pair whose key is not greater.
Insert(sq, p) ==
    LET k == Cardinality({j \in 1..Len(sq) : sq[j][1] <= p[1]})
    IN SubSeq(sq, 1, k) \o <<p>> \o SubSeq(sq, k + 1, Len(sq))

RECURSIVE sorted(_)
sorted(ps) ==
    IF ps = <<>> THEN <<>>
    ELSE Insert(sorted(SubSeq(ps, 1, Len(ps) - 1)), ps[Len(ps)])

Items(ps) == [i \in 1..Len(ps) |-> ps[i][2]]

\* sorted(commits, key=authored_datetime) and its reverse=True form, which
\* orders by descending key and keeps equal keys in their original order.
sorted_by_authored(cs, reverse) ==
    Items(sorted([i \in 1..Len(cs) |->
                    <<IF reverse THEN 0 - cs[i].t ELSE cs[i].t, cs[i]>>]))

\* TimeRange.timedelta in seconds: end - start.
total_seconds_of(e) == e.end - e.start

RECURSIVE total_seconds(_)
total_seconds(es) ==
    IF es = <<>> THEN 0
    ELSE total_seconds_of(es[1]) + total_seconds(Tail(es))

\* TimeRange.contains_datetime with the default zero buffer: both bounds are
\* inclusive.  The _open variant excludes them.
contains_datetime_open(e, t) == e.start < t /\ t < e.end

contains_datetime(e, t) == e.start <= t /\ t <= e.end

\* round(num / den) for den > 0: Python rounds a tie to the even neighbour.
\* On the values of this model the quotient computed in double precision
\* rounds as the exact quotient does.
round(num, den) ==
    LET q == num \div den
        r == num % den
    IN IF 2 * r < den THEN q
       ELSE IF 2 * r > den THEN q + 1
       ELSE IF q % 2 = 0 THEN q ELSE q + 1

\* commit_share: round(share * total_commits), raised to 1 when it is 0.  The
\* _unfloored variant keeps the rounded value.
commit_share_unfloored(e, total, total_commits) ==
    round(total_seconds_of(e) * total_commits, total)

commit_share(e, total, total_commits) ==
    LET c == round(total_seconds_of(e) * total_commits, total)
    IN IF c > 0 THEN c ELSE 1

\* The loop over self.entries: each entry takes islice(commits_iter, share) from
\* the shared iterator, whose position is `used`.
RECURSIVE take_shares(_, _, _, _, _, _)
take_shares(es, total, cs, k, used, acc) ==
    IF k > Len(es) THEN [buckets |-> acc, used |-> used]
    ELSE LET n == Min(commit_share(es[k], total, Len(cs)), Len(cs) - used)
         IN take_shares(es, total, cs, k + 1, used + n,
                        Append(acc, SubSeq(cs, used + 1, used + n)))

\* next((i for i in self.entries if contains_datetime(...)), self.entries[0])
nearest_entry(es, t) ==
    IF \E i \in 1..Len(es) : contains_datetime(es[i], t)
    THEN CHOOSE i \in 1..Len(es) :
             /\ contains_datetime(es[i], t)
             /\ \A j \in 1..(i - 1) : ~contains_datetime(es[j], t)
    ELSE 1

\* The loop over what is left in commits_iter.
RECURSIVE allocate_missed(_, _, _, _)
allocate_missed(es, cs, j, acc) ==
    IF j > Len(cs) THEN acc
    ELSE allocate_missed(es, cs, j + 1,
             [acc EXCEPT ![nearest_entry(es, cs[j].t)] = Append(@, cs[j])])

\* The loop over what is left in commits_iter once the shares are taken: t is
\* the outcome of the loop over the entries.
place_missed(es, cs, t) ==
    [buckets |-> allocate_missed(es, cs, t.used + 1, t.buckets),
     taken |-> [k \in 1..Len(es) |-> Len(t.buckets[k])],
     err |-> "none"]

\* EntryBuilder._distribute_commit_entries from the sorted pool on.
distribute_sorted(es, total, commits) ==
    place_missed(es, commits, take_shares(es, total, commits, 1, 0, <<>>))

\* EntryBuilder._distribute_commit_entries for one repository: the pool is
\* sorted by authored time and reversed; commits_per_second divides by the
\* total duration of the entries.
distribute_commit_entries(es, pool) ==
    IF total_seconds(es) = 0
    THEN [buckets |-> <<>>, taken |-> <<>>, err |-> "ZeroDivisionError"]
    ELSE distribute_sorted(es, total_seconds(es),
                           Reverse(sorted_by_authored(pool, FALSE)))

\* The while-loop of TimeWarriorCreateEntryFlow.distribute_commits: the head of
\* the deque takes its share, the deque rotates, until a model takes nothing.
\* ms holds positions into es; turn counts the rotations.
RECURSIVE rotate_shares(_, _, _, _, _, _, _)
rotate_shares(es, total, ms, cs, turn, used, acc) ==
    LET k == ms[(turn % Len(ms)) + 1]
        n == Min(commit_share(es[k], total, Len(cs)), Len(cs) - used)
    IN IF n = 0 THEN acc
       ELSE rotate_shares(es, total, ms, cs, turn + 1, used + n,
                [acc EXCEPT ![k] = @ \o SubSeq(cs, used + 1, used + n)])

\* model_commits as buckets per model, the models without commits included.
model_buckets(b) ==
    [buckets |-> b, taken |-> [k \in 1..Len(b) |-> Len(b[k])], err |-> "none"]

\* The deque of distribute_commits: positions of the models by descending start.
models_deque(es) ==
    Items(sorted([i \in 1..Len(es) |-> <<0 - es[i].start, i>>]))

\* TimeWarriorCreateEntryFlow.distribute_commits; es are the active models'
\* raw entries in load order.  model_shares divides by the total duration, and
\* models[0] of an empty deque does not exist.
distribute_commits(es, pool) ==
    IF es # <<>> /\ total_seconds(es) = 0
    THEN [buckets |-> <<>>, taken |-> <<>>, err |-> "ZeroDivisionError"]
    ELSE IF es = <<>>
    THEN [buckets |-> <<>>, taken |-> <<>>, err |-> "IndexError"]
    ELSE model_buckets(rotate_shares(es, total_seconds(es), models_deque(es),
                                     sorted_by_authored(pool, TRUE), 0, 0,
                                     [k \in 1..Len(es) |-> <<>>]))

\* The chosen entries: tracked intervals do not overlap, and the builder lists
\* them newest first.
Intervals == {iv \in [start : Times, end : Times] : iv.start <= iv.end}

ChosenEntries ==
    {es \in UNION {[1..n -> Intervals] : n \in 0..MaxChosen} :
        \A i \in 1..(Len(es) - 1) : es[i + 1].end <= es[i].start}

\* The pool: the author's commits as the repository lists them, by authored
\* time newest first or oldest first.
Pool(ts) == [i \in 1..Len(ts) |-> [id |-> i, t |-> ts[i]]]

Pools ==
    {Pool(ts) : ts \in
        {s \in UNION {[1..n -> Times] : n \in 0..MaxCommits} :
            \/ \A i \in 1..(Len(s) - 1) : s[i] >= s[i + 1]
            \/ \A i \in 1..(Len(s) - 1) : s[i] <= s[i + 1]}}

\* Two entries of one and three hours, and eight commits authored across the
\* combined window.
ScenarioEntries == <<[start |-> 3, end |-> 4], [start |-> 0, end |-> 3]>>

ScenarioPools == {Pool(<<4, 3, 3, 2, 2, 1, 1, 0>>), Pool(<<0, 1, 1, 2, 2, 3, 3, 4>>)}

DistIdle ==
    /\ d_entries = <<>> /\ d_commits = <<>> /\ entry_commits = <<>>
    /\ d_taken = <<>> /\ d_err = "none" /\ d_by = "none" /\ d_attached = <<>>

\* log create --mode distribute: the builder distributes the pool of one
\* repository over the chosen entries.
DistributeBuilder ==
    /\ d_by = "none"
    /\ \E d \in {distribute_commit_entries(d_entries, d_commits)} :
          /\ entry_commits' = d.buckets
          /\ d_taken' = d.taken
          /\ d_err' = d.err
    /\ d_by' = "builder"
    /\ UNCHANGED <<d_entries, d_commits, d_attached, flowVars, srcVars, twVars, tagVars, commitVars, extVars>>

\* The loop of create_drafts over the active models: a model whose log entry
\* has no commits is given the chosen commits, all of them.
attach_commits(buckets, chosen_commits) ==
    [k \in DOMAIN buckets |->
        IF buckets[k] = <<>> THEN chosen_commits ELSE buckets[k]]

\* create_drafts of the tracker flow with should_distribute: the active models
\* are in load order, oldest first.
DistributeFlow ==
    /\ d_by = "none"
    /\ \E d \in {distribute_commits(Reverse(d_entries), d_commits)} :
          /\ entry_commits' = Reverse(d.buckets)
          /\ d_taken' = Reverse(d.taken)
          /\ d_err' = d.err
          /\ d_attached' = attach_commits(Reverse(d.buckets), d_commits)
    /\ d_by' = "flow"
    /\ UNCHANGED <<d_entries, d_commits, flowVars, srcVars, twVars, tagVars, commitVars, extVars>>

\* ------------------------------------------------------- the entries source
SrcTags == {"logged", "proj"}

\* One item of the tracker's export or one row of the CSV file; end is <<>>
\* when the item has none.
RawItems == [end : {<<>>, <<1>>}, tags : SUBSET SrcTags]

LoaderKinds == {"timew", "csv"}

\* RawEntry.is_active: start is set and end is not.
is_active(e) == e.end = <<>>

\* is_logged: the "logged" tag for a tracker entry, constantly false for a CSV row.
is_logged(kind, e) == IF kind = "timew" THEN "logged" \in e.tags ELSE FALSE

\* is_project for the project the caller asks about.
is_project(e) == "proj" \in e.tags

\* load(): the items the loader hands to process(), with their position as id.
\* The tracker loader drops what a filter matches (filter_logged: the flow's
\* filter on the "logged" tag); the CSV loader drops rows without a To value.
load(kind, data, filter_logged) ==
    LET items == [i \in 1..Len(data) |-> [id |-> i, end |-> data[i].end, tags |-> data[i].tags]]
    IN SelectSeq(items, LAMBDA d :
           IF kind = "timew" THEN ~(filter_logged /\ "logged" \in d.tags)
           ELSE d.end # <<>>)

\* process() of the tracker loader passes end=False for an item without an end,
\* which the converter of RawEntry.end cannot parse.
process_fails(kind, items) ==
    kind = "timew" /\ \E i \in 1..Len(items) : items[i].end = <<>>

\* EntryLoader.populate: loaded is set, then the processed items are appended.
populate(ld, filter_logged) ==
    LET items == load(ld.kind, ld.data, filter_logged)
    IN IF process_fails(ld.kind, items)
       THEN [loader |-> [ld EXCEPT !.loaded = TRUE], err |-> "TypeError"]
       ELSE [loader |-> [ld EXCEPT !.loaded = TRUE, !.entries = @ \o items],
             err |-> "none"]

\* EntriesSource.unlogged_entries.  The _any variant keeps active entries.
unlogged_entries_any(ld) ==
    SelectSeq(ld.entries, LAMBDA e : ~is_logged(ld.kind, e))

unlogged_entries(ld) ==
    SelectSeq(ld.entries, LAMBDA e : ~is_logged(ld.kind, e) /\ ~is_active(e))

\* The cached_property: computed at the first read, then the stored value.
read_unlogged(ld, cache) ==
    IF cache.cached THEN cache ELSE [cached |-> TRUE, value |-> unlogged_entries(ld)]

SrcIdle ==
    /\ loader = [kind |-> "csv", data |-> <<>>, entries |-> <<>>, loaded |-> FALSE]
    /\ source = [built |-> FALSE, err |-> "none"]
    /\ unlogged = [cached |-> FALSE, value |-> <<>>]
    /\ by_project = [computed |-> FALSE, value |-> <<>>]

\* EntriesSource.from_loader: a loader that is not loaded is populated first.
FromLoader(filter_logged) ==
    /\ ~source.built /\ source.err = "none"
    /\ (loader.loaded \/ loader.kind = "csv") => ~filter_logged
    /\ IF loader.loaded
       THEN /\ source' = [built |-> TRUE, err |-> "none"]
            /\ UNCHANGED loader
       ELSE LET p == populate(loader, filter_logged)
            IN /\ loader' = p.loader
               /\ source' = [built |-> p.err = "none", err |-> p.err]
    /\ UNCHANGED <<unlogged, by_project, flowVars, distVars, twVars, tagVars, commitVars, extVars>>

\* EntryLoader.populate with the load step of the CSV loader: load raises
\* FileNotFoundError when csv_path is not a file; loaded has been set by then.
populate_at(ld, filter_logged, path_exists) ==
    IF ld.kind = "csv" /\ ~path_exists
    THEN [loader |-> [ld EXCEPT !.loaded = TRUE], err |-> "FileNotFoundError"]
    ELSE populate(ld, filter_logged)

\* EntriesSource.from_loader(loader, csv_path), also called again with the same
\* loader after a call that raised.
FromLoaderAt(filter_logged, path_exists) ==
    /\ ~source.built
    /\ (loader.loaded \/ loader.kind = "csv") => ~filter_logged
    /\ (loader.loaded \/ loader.kind = "timew") => path_exists
    /\ IF loader.loaded
       THEN /\ source' = [built |-> TRUE, err |-> "none"]
            /\ UNCHANGED loader
       ELSE LET p == populate_at(loader, filter_logged, path_exists)
            IN /\ loader' = p.loader
               /\ source' = [built |-> p.err = "none", err |-> p.err]
    /\ UNCHANGED <<unlogged, by_project, flowVars, distVars, twVars, tagVars, commitVars, extVars>>

\* source.unlogged_entries
ReadUnlogged ==
    /\ source.built /\ ~unlogged.cached
    /\ unlogged' = read_unlogged(loader, unlogged)
    /\ UNCHANGED <<loader, source, by_project, flowVars, distVars, twVars, tagVars, commitVars, extVars>>

\* source.unlogged_by_project(project)
UnloggedByProject ==
    /\ source.built /\ ~by_project.computed
    /\ LET u == read_unlogged(loader, unlogged)
       IN /\ unlogged' = u
          /\ by_project' = [computed |-> TRUE,
                            value |-> SelectSeq(u.value, LAMBDA e : is_project(e))]
    /\ UNCHANGED <<loader, source, flowVars, distVars, twVars, tagVars, commitVars, extVars>>

\* ------------------------------------------- the tracker flow (state/commit.py)
\* TimeWarriorCreateEntryFlow runs the transitions of create_transitions with
\* its own handlers.  Its confirm_drafts and commit_drafts are inherited, so the
\* flow is followed up to DRAFT.
TwRepos == {"r1", "r2"}

HAS_REPOS == {"REPOS_AVAILABLE", "REPOS_SELECTED"}

HAS_COMMITS == {"COMMITS_AVAILABLE", "COMMITS_SELECTED"}

\* EntryContext.create_model for a tracker entry: whether a project matches
\* it, the repositories of that project, and the entry's duration in seconds.
tw_create_model(id, hp, rp, secs) ==
    [id |-> id, st |-> "init", has_project |-> hp,
     repos |-> IF hp THEN rp ELSE {}, secs |-> secs,
     log_entry |-> FALSE, description |-> FALSE]

\* prepare_entries: one model per unlogged entry of the source, then
\* "validate" is dispatched to all of them.
tw_prepare_entries(hp, rp, secs) ==
    [i \in 1..NEntries |-> validate(tw_create_model(i, hp[i], rp[i], secs[i]))]

\* active_models: the models that are neither invalid nor skipped, in order.
active_models(ms) == SelectSeq(ms, LAMBDA m : m.st \notin {"invalid", "skipped"})

\* active_repos: the repositories of the active models' projects, by name.
active_repos(ms) == UNION {ms[i].repos : i \in {j \in DOMAIN ms : ms[j].st \notin {"invalid", "skipped"}}}

\* The flags choose_entries sets after a non-empty selection: ENTRIES_SELECTED,
\* and HAS_REPOS if any active repository exists.
selection_flags(ms, fl) ==
    fl \cup {"ENTRIES_SELECTED"} \cup (IF active_repos(ms) # {} THEN HAS_REPOS ELSE {})

\* TimeWarriorCreateEntryFlow.choose_entries: an empty selection fires cancel;
\* otherwise the unselected models are skipped and the flags are set.
tw_choose_entries(ms, fl, sel) ==
    IF sel = {} THEN [models |-> ms, flags |-> fl, cancel |-> TRUE]
    ELSE [models |-> skip_unselected(ms, sel),
          flags |-> selection_flags(skip_unselected(ms, sel), fl),
          cancel |-> FALSE]

\* trigger "next" on a tracker entry model that has not been drafted yet: init
\* goes to invalid unless has_project, else to draft, where create_entry builds
\* the LogEntry; skipped and invalid stay.
tw_next(m) ==
    IF m.st # "init" THEN m
    ELSE IF ~m.has_project THEN [m EXCEPT !.st = "invalid"]
    ELSE [m EXCEPT !.st = "draft", !.log_entry = TRUE]

\* The base flow dispatches "next" to the entry models before the drafts are
\* edited, so that every active model has its LogEntry.
base_dispatch_next(ms) == [i \in DOMAIN ms |-> tw_next(ms[i])]

\* The loop of create_drafts over the active models: the changelog is opened
\* in the editor; saved holds the entries whose text the user saves.  An
\* editor that returns no text raises typer.Abort.
RECURSIVE edit_drafts(_, _, _)
edit_drafts(ms, i, saved) ==
    IF i > Len(ms) THEN [models |-> ms, err |-> "none"]
    ELSE IF ms[i].st \in {"invalid", "skipped"} THEN edit_drafts(ms, i + 1, saved)
    ELSE IF ms[i].id \notin saved THEN [models |-> ms, err |-> "Abort"]
    ELSE edit_drafts([ms EXCEPT ![i].description = TRUE], i + 1, saved)

\* The raw entries of the active models as intervals, for distribute_commits.
active_intervals(ms) ==
    [i \in DOMAIN active_models(ms) |-> [start |-> 0, end |-> active_models(ms)[i].secs]]

\* TimeWarriorCreateEntryFlow.create_drafts: the chosen commits (none have been
\* chosen when the flow comes from ENTRIES) are distributed if should_distribute,
\* then every active model's changelog is edited.
tw_create_drafts(ms, should_distribute, saved) ==
    IF should_distribute /\ distribute_commits(active_intervals(ms), <<>>).err # "none"
    THEN [models |-> ms, err |-> distribute_commits(active_intervals(ms), <<>>).err]
    ELSE edit_drafts(ms, 1, saved)

TwAlive == tw_err = "none"

TwIdle == tw_state = "INIT" /\ tw_flags = {} /\ tw_models = <<>> /\ tw_err = "none"

\* No tracker entry carries a drafted tag.
NoDrafts == drafted = {}

\* No LogEntry has been saved, every CommitEntry has the default logged =
\* False, and the project has a teamwork_project of its own.
TagIdle == NoDrafts /\ c_saved = {} /\ c_logged = {} /\ project = <<TRUE>>

\* start of the tracker flow: INIT -> ENTRIES (prepare load_context, before
\* prepare_entries, after choose_entries, which may fire cancel).
TwStart(hp, rp, secs, sel) ==
    /\ TwAlive /\ tw_state = "INIT"
    /\ \E ms \in {tw_prepare_entries(hp, rp, secs)} :
          /\ \A e \in Entries : ~hp[e] => rp[e] = {}
          /\ sel \subseteq Selectable(ms)
          /\ \E c \in {tw_choose_entries(ms, {"ENTRIES_AVAILABLE"}, sel)} :
                /\ tw_state' = IF c.cancel THEN "CANCEL" ELSE "ENTRIES"
                /\ tw_models' = c.models
                /\ tw_flags' = c.flags
    /\ tw_results' = sel
    /\ UNCHANGED tw_err
    /\ UNCHANGED <<flowVars, distVars, srcVars, tagVars, commitVars, storeVars, results>>

\* flow.dry_run = value on the tracker flow.
TwSetDryRun(value) ==
    /\ TwAlive /\ tw_state # "INIT"
    /\ tw_flags' = SetFlagDryRun(tw_flags, value)
    /\ tw_flags' # tw_flags
    /\ UNCHANGED <<tw_state, tw_models, tw_err>>
    /\ UNCHANGED <<flowVars, distVars, srcVars, tagVars, commitVars, extVars>>

\* choose in ENTRIES on the tracker flow, the transitions tried in order:
\* to CANCEL unless has_entries, to REPOS if are_repos_available (after
\* do_prompt), else to DRAFT (before create_drafts, after review_drafts).  An
\* exception in a before-callback leaves the state as it was.
TwChooseEntries(should_distribute, saved) ==
    /\ TwAlive /\ tw_state = "ENTRIES"
    /\ IF ~has_entries(tw_flags)
       THEN /\ tw_state' = "CANCEL" /\ tw_err' = "TypeError"
            /\ UNCHANGED tw_models
       ELSE IF are_repos_available(tw_flags)
       THEN /\ tw_state' = "REPOS"
            /\ UNCHANGED <<tw_models, tw_err>>
       ELSE \E d \in {tw_create_drafts(base_dispatch_next(tw_models),
                                       should_distribute, saved)} :
               /\ tw_state' = IF d.err = "none" THEN "DRAFT" ELSE "ENTRIES"
               /\ tw_models' = d.models
               /\ tw_err' = d.err
    /\ UNCHANGED tw_flags
    /\ UNCHANGED <<flowVars, distVars, srcVars, tagVars, commitVars, extVars>>

\* choose in REPOS on the tracker flow: the condition has_chosen_repos of
\* REPOS -> COMMITS is not an attribute of the flow, so resolving it raises.
TwChooseRepos ==
    /\ TwAlive /\ tw_state = "REPOS"
    /\ tw_err' = "AttributeError"
    /\ UNCHANGED <<tw_state, tw_flags, tw_models>>
    /\ UNCHANGED <<flowVars, distVars, srcVars, tagVars, commitVars, extVars>>

\* cancel on the tracker flow: from every state to CANCEL.
TwCancel ==
    /\ TwAlive /\ tw_state # "CANCEL"
    /\ tw_state' = "CANCEL"
    /\ UNCHANGED <<tw_flags, tw_models, tw_err>>
    /\ UNCHANGED <<flowVars, distVars, srcVars, tagVars, commitVars, extVars>>

\* trigger "next" on a tracker entry model, the transitions of the tracker
\* flow's entry machine tried in order: draft goes to published unless dry_run
\* (after commit_entry_handler, which sends the request), else to complete;
\* the machine has no "next" transition out of published or complete, so the
\* event raises MachineError there.  r is the remote's answer to the request.
tw_next_event(m, fl, r) ==
    IF m.st \in {"init", "skipped", "invalid"}
    THEN [m |-> tw_next(m), posted |-> FALSE, err |-> "none"]
    ELSE IF m.st = "draft"
    THEN IF dry_run(fl)
         THEN [m |-> [m EXCEPT !.st = "complete"], posted |-> FALSE, err |-> "none"]
         ELSE [m |-> [m EXCEPT !.st = "published"],
               posted |-> create_time_entry(r) = "none",
               err |-> create_time_entry(r)]
    ELSE [m |-> m, posted |-> FALSE, err |-> "MachineError"]

\* Machine.dispatch("next") on the tracker flow's entry machine.
RECURSIVE tw_dispatch_next(_, _, _, _)
tw_dispatch_next(i, acc, fl, rs) ==
    IF i > Len(acc.models) \/ acc.err # "none" THEN acc
    ELSE LET m == acc.models[i]
             n == tw_next_event(m, fl, rs[m.id])
         IN tw_dispatch_next(i + 1,
                [models |-> [acc.models EXCEPT ![i] = n.m],
                 remote |-> IF n.posted THEN [acc.remote EXCEPT ![m.id] = @ + 1]
                            ELSE acc.remote,
                 err |-> n.err],
                fl, rs)

\* The "next" events the tracker flow's SAVE step dispatches, k of them left:
\* the step submits the drafts to the remote and then persists them, one
\* dispatch each in the CSV flow's commit_drafts; a dry run dispatches once.
RECURSIVE tw_commit_drafts(_, _, _, _)
tw_commit_drafts(acc, fl, rs, k) ==
    IF k = 0 \/ acc.err # "none" THEN acc
    ELSE tw_commit_drafts(tw_dispatch_next(1, acc, fl, rs), fl, rs,
                          IF dry_run(fl) THEN 0 ELSE k - 1)

\* choose in DRAFT on the tracker flow: DRAFT -> SAVE.  answer: the user's
\* reply to the confirmation (not asked in a dry run); k: the "next" events
\* the step dispatches; rs: the remote's answers.  A declined confirmation
\* cancels the flow.
TwChooseDraft(answer, k, rs) ==
    /\ TwAlive /\ tw_state = "DRAFT"
    /\ rs \in Requests({tw_models[i].id :
                            i \in {j \in DOMAIN tw_models : tw_models[j].st = "draft"}},
                       ~dry_run(tw_flags))
    /\ dry_run(tw_flags) => answer
    /\ IF ~answer
       THEN /\ tw_state' = "CANCEL"
            /\ UNCHANGED <<tw_models, tw_err, remote>>
       ELSE \E d \in {tw_commit_drafts([models |-> tw_models, remote |-> remote["timew"],
                                        err |-> "none"], tw_flags, rs, k)} :
               /\ tw_state' = "SAVE"
               /\ tw_models' = d.models
               /\ tw_err' = d.err
               /\ remote' = [remote EXCEPT !["timew"] = d.remote]
    /\ UNCHANGED tw_flags
    /\ UNCHANGED <<state, flags, models, err, cancelled, confirmed, committing, resp,
                   attempted, offered, store, logged, run, mode>>
    /\ UNCHANGED <<distVars, srcVars, tagVars, commitVars, extVars>>

\* ------------------------------------------- the author's commits of a repository
\* A commit of the git log, newest first: grep is whether its message matches
\* the author's address, author whether its author is that address, parses
\* whether its summary matches parse_commit's grammar, and logged the logged
\* value of its CommitEntry (a commit without a CommitEntry has none).
RawCommits ==
    {c \in [grep : BOOLEAN, author : BOOLEAN, parses : BOOLEAN, logged : BOOLEAN] :
        ~c.parses => ~c.logged}

GitLogs == UNION {[1..n -> RawCommits] : n \in 0..MaxLog}

\* CommitEntry.parse_commit on the commit at position i of the log: the
\* CommitEntry when the summary matches, None otherwise (entry FALSE).
parse_commit(log, i) ==
    [pos |-> i, entry |-> log[i].parses, logged |-> log[i].parses /\ log[i].logged]

\* git log --grep=<address> --skip=<skip_count> --max-count=<batch_size>: positions
\* of the commits whose message matches, skip_count passed over, batch_size kept.
grep_positions(log) == SelectSeq([i \in 1..Len(log) |-> i], LAMBDA i : log[i].grep)

batch_positions(log, skip_count, batch_size) ==
    SubSeq(grep_positions(log), skip_count + 1,
           Min(skip_count + batch_size, Len(grep_positions(log))))

\* The for-loop of iter_commits_by_author over one batch; acc holds what has
\* been yielded, context_consumed, fetched_commits and whether the generator
\* has returned.
RECURSIVE scan_batch(_, _, _, _, _)
scan_batch(log, batch, k, acc, unlogged_context) ==
    IF k > Len(batch) \/ acc.returned THEN acc
    ELSE IF ~log[batch[k]].author THEN scan_batch(log, batch, k + 1, acc, unlogged_context)
    ELSE LET commit == parse_commit(log, batch[k])
             consumed == IF commit.logged THEN acc.consumed + 1 ELSE acc.consumed
         IN scan_batch(log, batch, k + 1,
                [out |-> Append(acc.out, commit),
                 consumed |-> consumed,
                 fetched |-> acc.fetched + 1,
                 returned |-> commit.logged /\ consumed >= unlogged_context],
                unlogged_context)

\* The while-loop of iter_commits_by_author: batch after batch until the
\* generator returns or a batch fetched no commit of the author.
RECURSIVE iter_batches(_, _, _, _, _)
iter_batches(log, skip_count, acc, unlogged_context, batch_size) ==
    LET r == scan_batch(log, batch_positions(log, skip_count, batch_size), 1,
                        [acc EXCEPT !.fetched = 0], unlogged_context)
    IN IF r.returned \/ r.fetched = 0 THEN r.out
       ELSE iter_batches(log, skip_count + batch_size, r, unlogged_context, batch_size)

\* ProjectRepository.iter_commits_by_author: everything the generator yields.
iter_commits_by_author(log, unlogged_context, batch_size) ==
    iter_batches(log, 0, [out |-> <<>>, consumed |-> 0, fetched |-> 0, returned |-> FALSE],
                 unlogged_context, batch_size)

\* The list both builder steps start from: parse_commit of every commit of
\* the author among repo.iter_commits().
author_commits(log) ==
    LET ps == SelectSeq([i \in 1..Len(log) |-> i], LAMBDA i : log[i].author)
    IN [k \in 1..Len(ps) |-> parse_commit(log, ps[k])]

\* EntryBuilder._create_commits_prompt: if any item is a CommitEntry, one
\* choice per item of the list.
create_commits_prompt(log) ==
    IF \E k \in DOMAIN author_commits(log) : author_commits(log)[k].entry
    THEN author_commits(log) ELSE <<>>

\* EntryBuilder._distribute_commit_entries: the pool keeps the items that are
\* not None and not logged.
distribution_pool(log) == SelectSeq(author_commits(log), LAMBDA c : c.entry /\ ~c.logged)

\* TimeWarriorCreateEntryFlow.choose_commits over a chosen repository's
\* commits: multiselect is called with the keyword checked, which
\* create_multiselect does not accept.
choose_commits(items) == IF items # <<>> THEN "TypeError" ELSE "none"

NoArgs == [unlogged_context |-> 0, batch_size |-> 0]

CommitsIdle ==
    /\ git_log = <<>> /\ c_yielded = <<>> /\ c_offered = <<>> /\ c_pool = <<>>
    /\ c_err = "none" /\ c_done = {} /\ c_args = NoArgs

\* repo.iter_commits_by_author(git_author), consumed to its end.
IterCommits(unlogged_context, batch_size) ==
    /\ "iter" \notin c_done
    /\ c_yielded' = iter_commits_by_author(git_log, unlogged_context, batch_size)
    /\ c_done' = c_done \cup {"iter"}
    /\ c_args' = [unlogged_context |-> unlogged_context, batch_size |-> batch_size]
    /\ UNCHANGED <<git_log, c_offered, c_pool, c_err>>
    /\ UNCHANGED <<flowVars, distVars, srcVars, twVars, tagVars, extVars>>

\* choose_commits of the tracker flow over what the generator yielded.
FlowChooseCommits ==
    /\ "iter" \in c_done /\ "choose" \notin c_done
    /\ c_err' = choose_commits(c_yielded)
    /\ c_done' = c_done \cup {"choose"}
    /\ UNCHANGED <<git_log, c_yielded, c_offered, c_pool, c_args>>
    /\ UNCHANGED <<flowVars, distVars, srcVars, twVars, tagVars, extVars>>

\* log create, replicate mode: the commit prompt of one repository.
BuilderPrompt ==
    /\ "prompt" \notin c_done
    /\ c_offered' = create_commits_prompt(git_log)
    /\ c_done' = c_done \cup {"prompt"}
    /\ UNCHANGED <<git_log, c_yielded, c_pool, c_err, c_args>>
    /\ UNCHANGED <<flowVars, distVars, srcVars, twVars, tagVars, extVars>>

\* log create, distribute mode: the pool of one repository.
BuilderPool ==
    /\ "pool" \notin c_done
    /\ c_pool' = distribution_pool(git_log)
    /\ c_done' = c_done \cup {"pool"}
    /\ UNCHANGED <<git_log, c_yielded, c_offered, c_err, c_args>>
    /\ UNCHANGED <<flowVars, distVars, srcVars, twVars, tagVars, extVars>>

\* ------------------------------------------------- the commitentry table
\* A row of the commitentry table: the commit it was parsed from and its
\* logged column.  The other columns (commit_type, scope, title) are
\* functions of the commit's summary, hence of the sha.
CommitRows == [sha : RepoCommits, logged : BOOLEAN]

\* The rows a query for the commit returns, in table order.
rows_of(rows, sha) == SelectSeq(rows, LAMBDA r : r.sha = sha)

\* get_or_create(session, CommitEntry, commit=commit, **groups) over the rows
\* the session's query can see: the first matching row, or a CommitEntry
\* constructed with logged at its default and added to the session.
get_or_create(rows, sha) ==
    IF rows_of(rows, sha) # <<>>
    THEN [instance |-> rows_of(rows, sha)[1], created |-> FALSE]
    ELSE [instance |-> [sha |-> sha, logged |-> FALSE], created |-> TRUE]

\* The rows parse_commit's query sees.  With the caller's session (sqlmodel's
\* Session, autoflush on) the pending objects are flushed ahead of the
\* SELECT; SessionLocal is a session of its own with autoflush off.
session_view(table, pending, with_session) ==
    IF with_session THEN table \o pending ELSE table

NoReturn == [called |-> FALSE, sha |-> "none", entry |-> FALSE, logged |-> FALSE,
             seen |-> FALSE]

CeIdle ==
    /\ ce_table = <<>> /\ ce_pending = <<>>
    /\ ce_created = [c \in RepoCommits |-> 0]
    /\ ce_first = [c \in RepoCommits |-> <<>>]
    /\ ce_ret = NoReturn

\* CommitEntry.parse_commit(commit, session): None for a summary outside the
\* grammar; otherwise get_or_create within the caller's session, or within
\* SessionLocal() when the caller has none.  Leaving the `with` block closes
\* a SessionLocal session, which discards what was added and not committed;
\* the caller's session (a nullcontext) stays open.
ParseCommit(sha, parses, with_session) ==
    /\ ce_created[sha] < MaxParse
    /\ IF ~parses
       THEN /\ ce_ret' = [called |-> TRUE, sha |-> sha, entry |-> FALSE,
                          logged |-> FALSE, seen |-> ce_first[sha] # <<>>]
            /\ UNCHANGED <<ce_table, ce_pending, ce_created, ce_first>>
       ELSE \E r \in {get_or_create(session_view(ce_table, ce_pending, with_session), sha)} :
            /\ ce_ret' = [called |-> TRUE, sha |-> sha, entry |-> TRUE,
                          logged |-> r.instance.logged, seen |-> ce_first[sha] # <<>>]
            /\ ce_created' = [ce_created EXCEPT ![sha] = @ + (IF r.created THEN 1 ELSE 0)]
            /\ ce_first' = [ce_first EXCEPT
                              ![sha] = IF @ = <<>> THEN <<r.instance.logged>> ELSE @]
            /\ ce_pending' = IF r.created /\ with_session
                             THEN Append(ce_pending, r.instance) ELSE ce_pending
            /\ UNCHANGED ce_table
    /\ UNCHANGED ceFrame

\* session.commit() of the caller's session: the pending objects become rows.
SessionCommit ==
    /\ ce_pending # <<>>
    /\ ce_table' = ce_table \o ce_pending
    /\ ce_pending' = <<>>
    /\ UNCHANGED <<ce_created, ce_first, ce_ret>>
    /\ UNCHANGED ceFrame

\* The caller's `with Session(engine)` block ends without a commit: the
\* session is closed and its pending objects are dropped.
SessionClose ==
    /\ ce_pending # <<>>
    /\ ce_pending' = <<>>
    /\ UNCHANGED <<ce_table, ce_created, ce_first, ce_ret>>
    /\ UNCHANGED ceFrame

\* ------------------------------------------------------ the project table
\* A project name is its dotted segments: <<"A", "B">> is "A.B".
Segments == {"A", "B"}

\* The names given to the project commands: two roots and, below the first,
\* one name of every length up to MaxSegments.
RECURSIVE Repeat(_, _)
Repeat(x, n) == IF n = 0 THEN <<>> ELSE <<x>> \o Repeat(x, n - 1)

ProjectNames == {Repeat("A", n) : n \in 1..MaxSegments} \cup {<<"B">>}

\* ".".join(name.split(".")[:-1])
parent_name(name) == SubSeq(name, 1, Len(name) - 1)

\* The tags `project add --tags` stores for a project, in the order given:
\* none, or two tags of its own.
own_tags(name) == <<[of |-> name, k |-> 1], [of |-> name, k |-> 2]>>

TagInputs(name) == {<<>>, own_tags(name)}

\* A row of the project table; parent is <<>> or holds the name of the row
\* parent_id refers to.
new_project(tags) == [parent |-> <<>>, tags |-> tags]

\* Project.validate_parent on the row `name` of table t, the commits it makes
\* included: a root loses its parent; a dotted name is linked to the row named
\* by its prefix, which is created with no tags, and validated in turn, when
\* the query does not find it.
RECURSIVE validate_parent(_, _)
validate_parent(t, name) ==
    IF Len(name) = 1
    THEN [t EXCEPT ![name].parent = <<>>]
    ELSE IF parent_name(name) \in DOMAIN t
    THEN [t EXCEPT ![name].parent = <<parent_name(name)>>]
    ELSE validate_parent(
             [n \in DOMAIN t \cup {parent_name(name)} |->
                 IF n = parent_name(name) THEN new_project(<<>>)
                 ELSE IF n = name THEN [t[n] EXCEPT !.parent = <<parent_name(name)>>]
                 ELSE t[n]],
             parent_name(name))

\* The mutation of resolve_tags that yields the ancestors' tags first.
RECURSIVE resolve_tags_parent_first(_, _, _)
resolve_tags_parent_first(t, name, fuel) ==
    IF fuel = 0 THEN [tags |-> <<>>, done |-> FALSE, depth |-> 0]
    ELSE IF t[name].parent = <<>>
    THEN [tags |-> t[name].tags, done |-> TRUE, depth |-> 1]
    ELSE LET up == resolve_tags_parent_first(t, t[name].parent[1], fuel - 1)
         IN [tags |-> up.tags \o t[name].tags, done |-> up.done, depth |-> up.depth + 1]

\* Project.resolve_tags, consumed as a list: the row's tags, then what the
\* parent's resolve_tags yields.  fuel bounds the recursion depth, which the
\* code leaves to the interpreter's recursion limit; done tells whether the
\* recursion came to its end within it, depth how many rows it visited.
RECURSIVE resolve_tags(_, _, _)
resolve_tags(t, name, fuel) ==
    IF fuel = 0 THEN [tags |-> <<>>, done |-> FALSE, depth |-> 0]
    ELSE IF t[name].parent = <<>>
    THEN [tags |-> t[name].tags, done |-> TRUE, depth |-> 1]
    ELSE LET up == resolve_tags(t, t[name].parent[1], fuel - 1)
         IN [tags |-> t[name].tags \o up.tags, done |-> up.done, depth |-> up.depth + 1]

\* session.delete(proj) and the commit: the row goes, and the rows whose
\* parent_id referred to it are left without a parent.
delete_project(t, name) ==
    [n \in DOMAIN t \ {name} |->
        IF t[n].parent = <<name>> THEN [t[n] EXCEPT !.parent = <<>>] ELSE t[n]]

NoOp == [op |-> "none", name |-> <<>>]

PjIdle == p_table = << >> /\ p_last = NoOp /\ p_err = "none"

\* `project add NAME --tags ...`: get_or_create by name; an existing project
\* aborts the command, a new one is added, validated and committed.
PjAdd(name, tags) ==
    /\ IF name \in DOMAIN p_table
       THEN /\ p_err' = "Abort"
            /\ p_last' = [op |-> "add_existing", name |-> name]
            /\ UNCHANGED p_table
       ELSE /\ p_table' = validate_parent([n \in DOMAIN p_table \cup {name} |->
                                               IF n = name THEN new_project(tags)
                                               ELSE p_table[n]], name)
            /\ p_last' = [op |-> "add", name |-> name]
            /\ p_err' = "none"
    /\ UNCHANGED pjFrame

\* `project delete NAME`: the project, if it exists and the user confirms.
PjDelete(name, answer) ==
    /\ name \in DOMAIN p_table
    /\ p_table' = IF answer THEN delete_project(p_table, name) ELSE p_table
    /\ p_last' = [op |-> IF answer THEN "delete" ELSE "keep", name |-> name]
    /\ p_err' = "none"
    /\ UNCHANGED pjFrame

\* The migration's pass over a project that exists: validate_parent and the
\* commit that follows.
PjValidate(name) ==
    /\ name \in DOMAIN p_table
    /\ p_table' = validate_parent(p_table, name)
    /\ p_last' = [op |-> "validate", name |-> name]
    /\ p_err' = "none"
    /\ UNCHANGED pjFrame

\* ------------------------------------------------- the time entry request
\* relativedelta(end, start) of two instants less than a month apart, from
\* their distance in seconds: the distance split into days, hours, minutes
\* and seconds, every field below the next unit.
relativedelta(secs) ==
    [days |-> secs \div 86400,
     hours |-> (secs % 86400) \div 3600,
     minutes |-> (secs % 3600) \div 60,
     seconds |-> secs % 60]

\* TimeRange.delta
delta(secs) == relativedelta(secs)

\* str(n) of a natural number: its decimal digits.
RECURSIVE str(_)
str(n) == IF n < 10 THEN <<n>> ELSE Append(str(n \div 10), n % 10)

\* TeamworkTimeEntryRequest.from_entry: the hours and minutes fields of the
\* body are the fields of that name of the interval's relativedelta.
from_entry(secs) ==
    [hours |-> str(delta(secs).hours), minutes |-> str(delta(secs).minutes)]

\* The durations of closed entries: whole minutes, alone or with 59 seconds
\* on top, up to one minute short of MaxDays + 1 days.
Durations == {60 * m + s : m \in 0..((MaxDays + 1) * 1440 - 1), s \in {0, 59}}

TeIdle == te_secs = 0 /\ te_req = <<>>

FromEntry ==
    /\ te_req = <<>>
    /\ te_req' = <<from_entry(te_secs)>>
    /\ UNCHANGED te_secs
    /\ UNCHANGED teFrame

\* ------------------------------------------------------ the document store
\* A document is a function from its keys to their values; a query matches
\* the documents that hold every key of a fragment with the fragment's value.
\* Query().PROFILE == p is the fragment with the one key PROFILE.
matches(doc, frag) == \A k \in DOMAIN frag : k \in DOMAIN doc /\ doc[k] = frag[k]

\* dict.update: the keys of data replace or extend those of the document.
doc_update(doc, data) ==
    [k \in DOMAIN doc \cup DOMAIN data |-> IF k \in DOMAIN data THEN data[k] ELSE doc[k]]

\* Table.upsert(data, cond): every document matching cond is updated with
\* data; when none matches, data is inserted at the end.
upsert(table, data, cond) ==
    IF \E i \in DOMAIN table : matches(table[i], cond)
    THEN [i \in DOMAIN table |->
             IF matches(table[i], cond) THEN doc_update(table[i], data) ELSE table[i]]
    ELSE Append(table, data)

\* Table.get(cond): the first matching document, <<>> for None.
table_get(table, cond) ==
    IF \E i \in DOMAIN table : matches(table[i], cond)
    THEN <<table[CHOOSE i \in DOMAIN table :
                    /\ matches(table[i], cond)
                    /\ \A j \in 1..(i - 1) : ~matches(table[j], cond)]>>
    ELSE <<>>

\* The restriction of a function to some of its keys.
pick(f, keys) == [k \in DOMAIN f \cap keys |-> f[k]]

\* ---- Config
ConfigFields == {"PROFILE", "TEAMWORK_HOST", "API_KEY", "GIT_USER", "TEAMWORK_UID"}

Profiles == {"default", "work"}

\* The values `config set` is given: a profile name for PROFILE, one of
\* MaxValues strings for the other keys it is used with.
ConfigKeys == {"PROFILE", "API_KEY", "GIT_USER"}

ConfigValues(key) ==
    IF key = "PROFILE" THEN Profiles ELSE {<<"v", n>> : n \in 1..MaxValues}

\* Config(): the defaults, GIT_USER taken from the git configuration.
ConfigDefaults ==
    [k \in ConfigFields |->
        IF k = "PROFILE" THEN "default"
        ELSE IF k = "GIT_USER" THEN <<"user.email", 0>>
        ELSE <<"None", 0>>]

\* The mutation of Config.query that keeps TableModel.query: every field.
config_query_fragment(cfg) == cfg

\* Config.query: Query().PROFILE == self.PROFILE
config_query(cfg) == pick(cfg, {"PROFILE"})

\* Config.load: the stored record of the profile, else the object itself.
config_load(table, cfg) ==
    IF table_get(table, config_query(cfg)) # <<>>
    THEN pick(table_get(table, config_query(cfg))[1], ConfigFields)
    ELSE cfg

\* Config.save: upsert of self.dict() under self.query().
config_save(table, cfg) == upsert(table, cfg, config_query(cfg))

\* ---- a model that keeps TableModel.query: the project of `project modify`
ModelNames == {"P", "Q"}

ModelTags == {"t1", "t2"}

ModelDocs == [name : ModelNames, tags : SUBSET ModelTags]

\* TableModel.query: the fragment of the fields that are set.
tm_query(obj, fields_set) == pick(obj, fields_set)

\* TableModel.load of Project(name=name), on which only name is set: the
\* parsed document with every key of it set, else the object itself.
tm_load(table, obj, fields_set) ==
    IF table_get(table, tm_query(obj, fields_set)) # <<>>
    THEN [obj |-> table_get(table, tm_query(obj, fields_set))[1],
          fields_set |-> DOMAIN table_get(table, tm_query(obj, fields_set))[1]]
    ELSE [obj |-> obj, fields_set |-> fields_set]

\* TableModel.save: upsert of self.dict() under self.tm_query().
tm_save(table, obj, fields_set) == upsert(table, obj, tm_query(obj, fields_set))

\* `project modify NAME --new-name ... --tags ...` up to its save: the loaded
\* object with the name replaced when one is given and, when tags are given,
\* the tags replaced by those it has in common with them.
modify(table, name, new_name, tags) ==
    LET l == tm_load(table, [name |-> name, tags |-> {}], {"name"})
        renamed == IF new_name # <<>> THEN [l.obj EXCEPT !.name = new_name[1]] ELSE l.obj
        retagged == IF tags # {} THEN [renamed EXCEPT !.tags = @ \cap tags] ELSE renamed
    IN [obj |-> retagged,
        fields_set |-> l.fields_set \cup (IF new_name # <<>> THEN {"name"} ELSE {})
                                    \cup (IF tags # {} THEN {"tags"} ELSE {})]

NoModify == [called |-> FALSE, name |-> "none", saved |-> <<>>]

DocIdle ==
    /\ cfg_table = <<>> /\ cfg_last = [p \in Profiles |-> <<>>]
    /\ tm_table = <<>> /\ tm_last = NoModify

\* `config set KEY VALUE`: the configuration loaded at import, copied with
\* the key updated, and saved.
ConfigSet(key, value) ==
    /\ \E cfg \in {[config_load(cfg_table, ConfigDefaults) EXCEPT ![key] = value]} :
          /\ cfg_table' = config_save(cfg_table, cfg)
          /\ cfg_last' = [cfg_last EXCEPT ![cfg["PROFILE"]] = <<cfg>>]
    /\ UNCHANGED <<tm_table, tm_last>>
    /\ UNCHANGED docFrame

\* Config().save() on a fresh object, as the test of the defaults does.
ConfigSaveDefaults ==
    /\ cfg_table' = config_save(cfg_table, ConfigDefaults)
    /\ cfg_last' = [cfg_last EXCEPT !["default"] = <<ConfigDefaults>>]
    /\ UNCHANGED <<tm_table, tm_last>>
    /\ UNCHANGED docFrame

\* `project modify`: load, change, save.
Modify(name, new_name, tags) ==
    /\ \E m \in {modify(tm_table, name, new_name, tags)} :
          /\ Len(tm_save(tm_table, m.obj, m.fields_set)) <= MaxDocs
          /\ tm_table' = tm_save(tm_table, m.obj, m.fields_set)
          /\ tm_last' = [called |-> TRUE, name |-> name, saved |-> <<m.obj>>]
    /\ UNCHANGED <<cfg_table, cfg_last>>
    /\ UNCHANGED docFrame

\* ------------------------------------------------------ the tracker export
\* A record of `timew export`: the tracker writes the tags key only for an
\* interval that has tags.
ExportTags == {"@work", "proj", "logged"}

ExportRecords ==
    {r \in [id : 1..MaxLoaded, keyed : BOOLEAN, tags : SUBSET ExportTags] :
        r.keyed = (r.tags # {})}

Exports ==
    {d \in UNION {[1..n -> ExportRecords] : n \in 0..MaxLoaded} :
        \A i \in DOMAIN d : d[i].id = i}

\* The filters of the tracker flow's load_context: the project's tag is not
\* among the record's tags; the record is tagged logged.
ExportFilters == {"not_project", "logged"}

FilterLists == {<<>>, <<"not_project">>, <<"logged">>, <<"not_project", "logged">>}

\* filt(item): both filters read item["tags"].
filt(f, item) ==
    IF ~item.keyed THEN "KeyError"
    ELSE IF f = "not_project" THEN "proj" \notin item.tags
    ELSE "logged" \in item.tags

\* TimeWarriorLoader.load, consumed to its end: the loop over the export
\* from record i on.  item["tags"] raises KeyError for a record without the
\* key, which ends the generator.
RECURSIVE timew_load(_, _, _, _)
timew_load(data, filters, i, acc) ==
    IF i > Len(data) THEN acc
    ELSE IF ~data[i].keyed THEN [acc EXCEPT !.err = "KeyError"]
    ELSE IF "@work" \notin data[i].tags THEN timew_load(data, filters, i + 1, acc)
    ELSE IF \E k \in DOMAIN filters : filt(filters[k], data[i]) = TRUE
    THEN timew_load(data, filters, i + 1, acc)
    ELSE timew_load(data, filters, i + 1, [acc EXCEPT !.out = Append(@, data[i])])

NotLoaded == [done |-> FALSE, out |-> <<>>, err |-> "none"]

ExIdle == ex_data = <<>> /\ ex_filters = <<>> /\ ex_out = NotLoaded

TimewLoad ==
    /\ ~ex_out.done
    /\ ex_out' = timew_load(ex_data, ex_filters, 1, [NotLoaded EXCEPT !.done = TRUE])
    /\ UNCHANGED <<ex_data, ex_filters>>
    /\ UNCHANGED exFrame

\* ------------------------------------------------- raw entries: tag methods

\* The tags a tracker interval carries or is given.
RawTags == {"logged", "twtw:id:1", "proj"}

RawIds == 1..2

RawEntries == [id : RawIds, tags : SUBSET RawTags]

TagArgs == UNION {[1..n -> RawTags] : n \in 0..MaxTagArgs}

\* tw.tag(f"@{self.id}", value) / tw.untag(f"@{self.id}", value)
timew(cmd, id, value) == [cmd |-> cmd, id |-> id, value |-> value]

\* TimeWarriorRawEntry.add_tag: the command, then attrs.evolve(self, ...).
add_tag(self, value) ==
    [ret  |-> [self EXCEPT !.tags = @ \cup {value}],
     cmds |-> <<timew("tag", self.id, value)>>]

\* TimeWarriorRawEntry.remove_tag
remove_tag(self, value) ==
    [ret  |-> [self EXCEPT !.tags = @ \ {value}],
     cmds |-> <<timew("untag", self.id, value)>>]

\* The loop of RawEntry.add_tags from values[i] on: `new = self.add_tag(v)`,
\* each time on self.
RECURSIVE add_tags_loop(_, _, _, _, _)
add_tags_loop(self, values, i, new, cmds) ==
    IF i > Len(values) THEN [ret |-> new, cmds |-> cmds]
    ELSE LET r == add_tag(self, values[i])
         IN  add_tags_loop(self, values, i + 1, r.ret, cmds \o r.cmds)

\* RawEntry.add_tags(*values)
add_tags(self, values) == add_tags_loop(self, values, 1, self, <<>>)

NoCall == [op |-> "none", values |-> <<>>]

TgIdle ==
    /\ tg_self = [id |-> 1, tags |-> {}]
    /\ tg_cmds = <<>>
    /\ tg_call = NoCall
    /\ tg_ret = <<>>

TagCall(op, values, r) ==
    /\ tg_call = NoCall
    /\ tg_call' = [op |-> op, values |-> values]
    /\ tg_ret' = <<r.ret>>
    /\ tg_cmds' = tg_cmds \o r.cmds
    /\ UNCHANGED tg_self
    /\ UNCHANGED tgFrame

AddTag(value) == TagCall("add_tag", <<value>>, add_tag(tg_self, value))

RemoveTag(value) == TagCall("remove_tag", <<value>>, remove_tag(tg_self, value))

AddTags(values) == TagCall("add_tags", values, add_tags(tg_self, values))

SelIdle == results = {} /\ tw_results = {}

ExtIdle == CeIdle /\ PjIdle /\ TeIdle /\ DocIdle /\ ExIdle /\ TgIdle /\ SelIdle

\* ------------------------------------------------------------------- runs
\* A new invocation of the tool: a fresh flow (or builder) over the same
\* tracker data, remote service and local store.  The two commands read
\* different sources, so a behaviour repeats one command.
NewRun(m) ==
    /\ run < MaxRuns
    /\ mode \in {"none", m}
    /\ \/ mode = "none"
       \/ err # "none"
       \/ mode = "flow" /\ state \in {"SAVE", "CANCEL"}
       \/ mode = "log" /\ confirmed # "none"
    /\ run' = run + 1
    /\ mode' = m
    /\ state' = "INIT" /\ flags' = {} /\ models' = <<>> /\ err' = "none"
    /\ cancelled' = FALSE /\ confirmed' = "none" /\ committing' = FALSE
    /\ resp' = NoAnswers /\ attempted' = {} /\ offered' = {}
    /\ results' = {}
    /\ UNCHANGED <<remote, store, logged>>
    /\ UNCHANGED <<distVars, srcVars, twVars, tagVars, commitVars, storeVars, tw_results>>

FlowIdle ==
    /\ state = "INIT" /\ flags = {} /\ models = <<>> /\ err = "none"
    /\ cancelled = FALSE /\ confirmed = "none" /\ committing = FALSE
    /\ resp = NoAnswers /\ attempted = {} /\ offered = {}
    /\ remote = [s \in Sources |-> [e \in Entries |-> 0]]
    /\ store = [s \in Sources |-> {}]
    /\ logged = {}
    /\ run = 0 /\ mode = "none"

Init == FlowIdle /\ DistIdle /\ SrcIdle /\ TwIdle /\ TagIdle /\ CommitsIdle /\ ExtIdle

Next ==
    \/ \E m \in {"flow", "log"} : NewRun(m)
    \/ \E hp \in [Entries -> BOOLEAN], sel \in SUBSET Entries : Start(hp, sel)
    \/ ChooseEntries
    \/ ChooseRepos
    \/ \E answer \in BOOLEAN, rs \in [Entries -> Outcomes] : ChooseDraft(answer, rs)
    \/ Cancel
    \/ \E value \in BOOLEAN : SetDryRun(value)
    \/ \E ev \in {"start", "choose"} : InvalidTrigger(ev)
    \/ /\ mode = "log"
       /\ \E sel \in SUBSET Entries, cs \in SUBSET RepoCommits, do_commit \in BOOLEAN,
             dry \in BOOLEAN, rs \in [Entries -> Outcomes] :
             LogCreate(sel, cs, do_commit, dry, rs)

Spec == Init /\ [][Next]_vars

\* Commit distribution over every bounded choice of entries and pool.
InitDist ==
    /\ FlowIdle /\ SrcIdle /\ TwIdle /\ TagIdle /\ CommitsIdle /\ ExtIdle
    /\ \/ d_entries \in ChosenEntries /\ d_commits \in Pools
       \/ d_entries = ScenarioEntries /\ d_commits \in ScenarioPools
    /\ entry_commits = <<>> /\ d_taken = <<>> /\ d_err = "none" /\ d_by = "none"
    /\ d_attached = <<>>

NextDist == DistributeBuilder \/ DistributeFlow

SpecDist == InitDist /\ [][NextDist]_vars

\* The entries source over every bounded loader: one still to be populated
\* from its data, or one constructed with its entries already loaded.
Loaders ==
    {[kind |-> k, data |-> d, entries |-> <<>>, loaded |-> FALSE] :
        k \in LoaderKinds, d \in UNION {[1..n -> RawItems] : n \in 0..MaxLoaded}}
    \cup
    {[kind |-> k, data |-> <<>>,
      entries |-> [i \in 1..Len(d) |-> [id |-> i, end |-> d[i].end, tags |-> d[i].tags]],
      loaded |-> TRUE] :
        k \in LoaderKinds, d \in UNION {[1..n -> RawItems] : n \in 0..MaxLoaded}}

InitSource ==
    /\ FlowIdle /\ DistIdle /\ TwIdle /\ TagIdle /\ CommitsIdle /\ ExtIdle
    /\ loader \in Loaders
    /\ source = [built |-> FALSE, err |-> "none"]
    /\ unlogged = [cached |-> FALSE, value |-> <<>>]
    /\ by_project = [computed |-> FALSE, value |-> <<>>]

NextSource ==
    \/ \E filter_logged \in BOOLEAN : FromLoader(filter_logged)
    \/ ReadUnlogged
    \/ UnloggedByProject

SpecSource == InitSource /\ [][NextSource]_vars

\* The tracker flow over every bounded set of tracker entries.
InitTW == FlowIdle /\ DistIdle /\ SrcIdle /\ TwIdle /\ TagIdle /\ CommitsIdle /\ ExtIdle

NextTW ==
    \/ \E hp \in [Entries -> BOOLEAN], rp \in [Entries -> SUBSET TwRepos],
          secs \in [Entries -> {0, 1}], sel \in SUBSET Entries :
          TwStart(hp, rp, secs, sel)
    \/ \E value \in BOOLEAN : TwSetDryRun(value)
    \/ \E should_distribute \in BOOLEAN, saved \in SUBSET Entries :
          TwChooseEntries(should_distribute, saved)
    \/ /\ tw_state = "DRAFT"
       /\ \E answer \in BOOLEAN, k \in 1..MaxNext, rs \in [Entries -> Outcomes] :
             TwChooseDraft(answer, k, rs)
    \/ TwChooseRepos
    \/ TwCancel

SpecTW == InitTW /\ [][NextTW]_vars

\* log create over tracker data in which some entries carry a drafted:<id>
\* tag, each with its time entry <id> at the remote.
InitResume ==
    /\ state = "INIT" /\ flags = {} /\ models = <<>> /\ err = "none"
    /\ cancelled = FALSE /\ confirmed = "none" /\ committing = FALSE
    /\ resp = NoAnswers /\ attempted = {} /\ offered = {}
    /\ drafted \in SUBSET Entries
    /\ remote = [s \in Sources |->
                    [e \in Entries |-> IF s = "timew" /\ e \in drafted THEN 1 ELSE 0]]
    /\ store = [s \in Sources |-> {}]
    /\ logged = {}
    /\ run = 0 /\ mode = "none"
    /\ c_saved = {} /\ c_logged = {}
    /\ project \in ProjectChains
    /\ DistIdle /\ SrcIdle /\ TwIdle /\ CommitsIdle /\ ExtIdle

NextResume ==
    \/ NewRun("log")
    \/ /\ mode = "log"
       /\ \E sel \in SUBSET Entries, cs \in SUBSET RepoCommits, do_commit \in BOOLEAN,
             dry \in BOOLEAN, rs \in [Entries -> Outcomes] :
             LogCreate(sel, cs, do_commit, dry, rs)

SpecResume == InitResume /\ [][NextResume]_vars

\* The commit steps over every bounded git log.
InitCommits ==
    /\ FlowIdle /\ DistIdle /\ SrcIdle /\ TwIdle /\ TagIdle /\ ExtIdle
    /\ git_log \in GitLogs
    /\ c_yielded = <<>> /\ c_offered = <<>> /\ c_pool = <<>>
    /\ c_err = "none" /\ c_done = {} /\ c_args = NoArgs

NextCommits ==
    \/ \E unlogged_context \in 1..MaxBatch, batch_size \in 1..MaxBatch :
          IterCommits(unlogged_context, batch_size)
    \/ FlowChooseCommits
    \/ BuilderPrompt
    \/ BuilderPool

SpecCommits == InitCommits /\ [][NextCommits]_vars

\* The generator alone, over the logs above and over longer histories of the
\* author's own conventional commits, of which any may be logged already.
AuthorLogs ==
    {l \in [1..(MaxLog + 1) -> RawCommits] :
        \A i \in DOMAIN l : l[i].grep /\ l[i].author /\ l[i].parses}

InitScan ==
    /\ FlowIdle /\ DistIdle /\ SrcIdle /\ TwIdle /\ TagIdle /\ ExtIdle
    /\ git_log \in GitLogs \cup AuthorLogs
    /\ c_yielded = <<>> /\ c_offered = <<>> /\ c_pool = <<>>
    /\ c_err = "none" /\ c_done = {} /\ c_args = NoArgs

NextScan ==
    \E unlogged_context \in 1..MaxBatch, batch_size \in 1..MaxBatch :
        IterCommits(unlogged_context, batch_size)

SpecScan == InitScan /\ [][NextScan]_vars

\* parse_commit over every bounded commitentry table: at most one row per
\* commit, as the migration's get_or_create leaves it.
CommitTables ==
    {t \in UNION {[1..n -> CommitRows] : n \in 0..Cardinality(RepoCommits)} :
        \A i, j \in DOMAIN t : t[i].sha = t[j].sha => i = j}

InitParse ==
    /\ FlowIdle /\ DistIdle /\ SrcIdle /\ TwIdle /\ TagIdle /\ CommitsIdle
    /\ PjIdle /\ TeIdle /\ DocIdle /\ ExIdle /\ TgIdle /\ SelIdle
    /\ ce_table \in CommitTables
    /\ ce_pending = <<>>
    /\ ce_created = [c \in RepoCommits |-> 0]
    /\ ce_first = [c \in RepoCommits |-> <<>>]
    /\ ce_ret = NoReturn

NextParse ==
    \/ \E sha \in RepoCommits, parses \in BOOLEAN, with_session \in BOOLEAN :
          ParseCommit(sha, parses, with_session)
    \/ SessionCommit
    \/ SessionClose

SpecParse == InitParse /\ [][NextParse]_vars

\* The project commands over an initially empty project table.
InitProjects ==
    /\ FlowIdle /\ DistIdle /\ SrcIdle /\ TwIdle /\ TagIdle /\ CommitsIdle /\ ExtIdle

NextProjects ==
    \/ \E name \in ProjectNames : \E tags \in TagInputs(name) : PjAdd(name, tags)
    \/ \E name \in ProjectNames, answer \in BOOLEAN : PjDelete(name, answer)
    \/ \E name \in ProjectNames : PjValidate(name)

SpecProjects == InitProjects /\ [][NextProjects]_vars

\* from_entry over every bounded duration.
InitPayload ==
    /\ FlowIdle /\ DistIdle /\ SrcIdle /\ TwIdle /\ TagIdle /\ CommitsIdle
    /\ CeIdle /\ PjIdle /\ DocIdle /\ ExIdle /\ TgIdle /\ SelIdle
    /\ te_secs \in Durations
    /\ te_req = <<>>

NextPayload == FromEntry

SpecPayload == InitPayload /\ [][NextPayload]_vars

\* The config commands over an initially empty Config table.
InitConfig ==
    /\ FlowIdle /\ DistIdle /\ SrcIdle /\ TwIdle /\ TagIdle /\ CommitsIdle /\ ExtIdle

NextConfig ==
    \/ \E key \in ConfigKeys : \E value \in ConfigValues(key) : ConfigSet(key, value)
    \/ ConfigSaveDefaults

SpecConfig == InitConfig /\ [][NextConfig]_vars

\* `project modify` over every table that holds at most one document per name.
ModelTables ==
    {t \in UNION {[1..n -> ModelDocs] : n \in 0..Cardinality(ModelNames)} :
        \A i, j \in DOMAIN t : t[i].name = t[j].name => i = j}

InitModify ==
    /\ FlowIdle /\ DistIdle /\ SrcIdle /\ TwIdle /\ TagIdle /\ CommitsIdle
    /\ CeIdle /\ PjIdle /\ TeIdle /\ ExIdle /\ TgIdle /\ SelIdle
    /\ cfg_table = <<>> /\ cfg_last = [p \in Profiles |-> <<>>]
    /\ tm_table \in ModelTables
    /\ tm_last = NoModify

NextModify ==
    \E name \in ModelNames, new_name \in {<<>>} \cup {<<n>> : n \in ModelNames},
       tags \in SUBSET ModelTags : Modify(name, new_name, tags)

SpecModify == InitModify /\ [][NextModify]_vars

\* TimeWarriorLoader.load over every bounded export and list of filters.
InitExport ==
    /\ FlowIdle /\ DistIdle /\ SrcIdle /\ TwIdle /\ TagIdle /\ CommitsIdle
    /\ CeIdle /\ PjIdle /\ TeIdle /\ DocIdle /\ TgIdle /\ SelIdle
    /\ ex_data \in Exports
    /\ ex_filters \in FilterLists
    /\ ex_out = NotLoaded

NextExport == TimewLoad

SpecExport == InitExport /\ [][NextExport]_vars

\* One tag method called on every bounded raw entry.
InitTags ==
    /\ FlowIdle /\ DistIdle /\ SrcIdle /\ TwIdle /\ TagIdle /\ CommitsIdle
    /\ CeIdle /\ PjIdle /\ TeIdle /\ DocIdle /\ ExIdle /\ SelIdle
    /\ tg_self \in RawEntries
    /\ tg_cmds = <<>>
    /\ tg_call = NoCall
    /\ tg_ret = <<>>

NextTags ==
    \/ \E value \in RawTags : AddTag(value)
    \/ \E value \in RawTags : RemoveTag(value)
    \/ \E values \in TagArgs : AddTags(values)

SpecTags == InitTags /\ [][NextTags]_vars

\* One invocation runs one command: the CSV flow or log create, or the tracker
\* flow, here over entries of one second each whose projects have no
\* repository.
InitFlows == Init

NextFlows ==
    \/ tw_state = "INIT" /\ Next
    \/ /\ mode = "none"
       /\ \/ \E hp \in [Entries -> BOOLEAN], sel \in SUBSET Entries :
                TwStart(hp, [e \in Entries |-> {}], [e \in Entries |-> 1], sel)
          \/ \E value \in BOOLEAN : TwSetDryRun(value)
          \/ \E should_distribute \in BOOLEAN, saved \in SUBSET Entries :
                TwChooseEntries(should_distribute, saved)
          \/ TwChooseRepos
          \/ TwCancel
          \/ /\ tw_state = "DRAFT"
             /\ \E answer \in BOOLEAN, k \in 1..MaxNext, rs \in [Entries -> Outcomes] :
                   TwChooseDraft(answer, k, rs)

SpecFlows == InitFlows /\ [][NextFlows]_vars

\* log create in both modes, over up to MaxRepos chosen repositories.
InitBuilder == Init

NextBuilder ==
    \/ NewRun("log")
    \/ /\ mode = "log"
       /\ \E sel \in SUBSET Entries, cs \in SUBSET RepoCommits, do_commit \in BOOLEAN,
             dry \in BOOLEAN, rs \in [Entries -> Outcomes] :
             LogCreate(sel, cs, do_commit, dry, rs)
    \/ /\ mode = "log"
       /\ \E sel \in SUBSET Entries, nrepos \in 0..MaxRepos, zero \in BOOLEAN,
             cs \in SUBSET RepoCommits, do_commit \in BOOLEAN, dry \in BOOLEAN,
             rs \in [Entries -> Outcomes] :
             LogCreateDistribute(sel, nrepos, zero, cs, do_commit, dry, rs)

SpecBuilder == InitBuilder /\ [][NextBuilder]_vars

\* ============================================================ properties
Src == IF mode = "log" THEN "timew" ELSE "csv"

Selected(m) == m.st \notin {"invalid", "skipped"}

\* C1: in a non-dry-run flow, when the user declines confirm_drafts' prompt,
\* commit_drafts does not run, no entry is submitted or saved, and the flow is
\* in CANCEL.
C1_DeclineCancels ==
    (mode = "flow" /\ confirmed = "no") =>
        /\ state = "CANCEL"
        /\ ~committing
        /\ attempted = {}
        /\ \A i \in DOMAIN models : models[i].st \notin {"published", "complete"}

\* C2: once the flow has entered CANCEL (by the cancel event, from any state and
\* also from inside a callback of a running transition) it stays in CANCEL.
C2_CancelAbsorbing == (mode = "flow" /\ cancelled) => state = "CANCEL"

\* C3: while DRY_RUN is set no step of the flow sends a create request, saves a
\* LogEntry or moves an entry into published, and an entry leaving draft goes
\* to complete.
C3_DryRunStep ==
    (mode = "flow" /\ mode' = "flow" /\ run' = run /\ dry_run(flags)) =>
        /\ remote' = remote
        /\ store' = store
        /\ attempted' = attempted
        /\ \A i \in DOMAIN models' :
              /\ models'[i].st = "published" => models[i].st = "published"
              /\ (models[i].st = "draft" /\ models'[i].st # "draft")
                    => models'[i].st = "complete"

C3_DryRunNeverPublishes == [][C3_DryRunStep]_vars

\* C3 witness: a dry-run flow has run commit_drafts and completed an entry
\* without any request.
C3_Witness ==
    /\ mode = "flow" /\ dry_run(flags) /\ state = "SAVE" /\ committing
    /\ attempted = {} /\ confirmed = "none"
    /\ \E i \in DOMAIN models : models[i].st = "complete"

\* C4: an entry submitted and saved by an earlier run is not offered by a later
\* run, and no entry is created twice at the remote.
C4_NoDuplicateAcrossRuns ==
    /\ \A s \in Sources, e \in Entries : remote[s][e] <= 1
    /\ \A e \in Entries : (e \in store[Src] /\ e \notin attempted) => e \notin offered

\* C5: when the submission of one selected entry fails, every later selected
\* entry of the batch is still submitted, and saved if its own answer is OK.
C5_FailureIsolated ==
    \A i, j \in DOMAIN models :
        (/\ i < j
         /\ models[i].id \in attempted
         /\ resp[models[i].id] # "OK"
         /\ Selected(models[j]))
        => /\ models[j].id \in attempted
           /\ resp[models[j].id] = "OK" => models[j].id \in store[Src]

\* C6: a response whose STATUS is not "OK" reaches the caller as an error on
\* every submission path.
C6_NonOkSurfaced ==
    \A e \in attempted : resp[e] = "ERR" => err # "none"

\* ---------------------------------------------- distribution properties
\* The places of the buckets: <<k, j>> is the j-th commit of entry k's bucket.
Slots == UNION {{<<k, j>> : j \in DOMAIN entry_commits[k]} : k \in DOMAIN entry_commits}

RECURSIVE TakenBefore(_)
TakenBefore(k) == IF k <= 1 THEN 0 ELSE d_taken[k - 1] + TakenBefore(k - 1)

RECURSIVE DurationUpTo(_)
DurationUpTo(k) ==
    IF k = 0 THEN 0
    ELSE (d_entries[k].end - d_entries[k].start) + DurationUpTo(k - 1)

\* c is num / den rounded to the nearest integer, a tie going to the even one.
IsRounded(c, num, den) ==
    LET twice == IF c * den >= num THEN 2 * (c * den - num) ELSE 2 * (num - c * den)
    IN twice < den \/ (twice = den /\ c % 2 = 0)

\* The authored time of the j-th commit in entry k's bucket.
AuthoredAt(k, j) == entry_commits[k][j].t

ShareSlots == {s \in Slots : s[2] <= d_taken[s[1]]}

LeftoverSlots == Slots \ ShareSlots

\* C7: for every choice of entries and every pool, either distribution ends
\* without an error and every commit of the pool is in exactly one bucket.
C7_EveryCommitBucketed ==
    d_by # "none" =>
        /\ d_err = "none"
        /\ \A s \in Slots : \E c \in DOMAIN d_commits : entry_commits[s[1]][s[2]] = d_commits[c]
        /\ \A c \in DOMAIN d_commits :
              Cardinality({s \in Slots : entry_commits[s[1]][s[2]] = d_commits[c]}) = 1

\* C8: where the shares are defined, the builder serves the entries in input
\* order from the pool in descending authored time, and entry k takes
\* min(remaining, max(1, round(share * total_commits))) commits; entries of one
\* and three hours with eight commits take 2 and 6 and leave none.
C8_ShareOrder ==
    (d_by = "builder" /\ d_err = "none") =>
        LET n == Len(d_commits)
            total == DurationUpTo(Len(d_entries))
        IN /\ \A k \in DOMAIN d_entries :
                 \E c \in 0..n :
                    /\ IsRounded(c, (d_entries[k].end - d_entries[k].start) * n, total)
                    /\ d_taken[k] = Min(n - TakenBefore(k), IF c >= 1 THEN c ELSE 1)
           /\ \A s1, s2 \in ShareSlots :
                 (s1[1] < s2[1] \/ (s1[1] = s2[1] /\ s1[2] < s2[2]))
                    => AuthoredAt(s1[1], s1[2]) >= AuthoredAt(s2[1], s2[2])
           /\ \A s1 \in ShareSlots, s2 \in LeftoverSlots :
                 AuthoredAt(s1[1], s1[2]) >= AuthoredAt(s2[1], s2[2])
           /\ (/\ Len(d_entries) = 2 /\ n = 8
               /\ d_entries[1].end - d_entries[1].start = 1
               /\ d_entries[2].end - d_entries[2].start = 3)
                 => d_taken = <<2, 6>> /\ LeftoverSlots = {}

\* C8 witness: the builder has distributed eight commits over entries of one
\* and three hours.
C8_Witness ==
    /\ d_by = "builder" /\ d_err = "none"
    /\ d_entries = ScenarioEntries /\ Len(d_commits) = 8
    /\ Len(entry_commits[1]) = 2 /\ Len(entry_commits[2]) = 6

\* C9: a commit left over after the shares is in the bucket of the first entry
\* (input order) whose interval, bounds included, contains its authored time,
\* and in the first entry's bucket when no interval contains it; no leftover
\* commit is lost.
C9_LeftoverPlacement ==
    (d_by = "builder" /\ d_err = "none") =>
        /\ \A s \in LeftoverSlots :
              LET t == AuthoredAt(s[1], s[2])
                  holders == {i \in DOMAIN d_entries :
                                 d_entries[i].start <= t /\ t <= d_entries[i].end}
              IN IF holders = {} THEN s[1] = 1
                 ELSE s[1] \in holders /\ \A i \in holders : s[1] <= i
        /\ Cardinality(LeftoverSlots) = Len(d_commits) - TakenBefore(Len(d_entries) + 1)

\* C9 witness: a leftover commit authored at the start bound of a later
\* entry's interval, outside the first entry's, is in that entry's bucket.
C9_Witness ==
    /\ d_by = "builder" /\ d_err = "none"
    /\ \E s \in LeftoverSlots :
          /\ s[1] > 1
          /\ AuthoredAt(s[1], s[2]) = d_entries[s[1]].start
          /\ AuthoredAt(s[1], s[2]) < d_entries[1].start

\* ---------------------------------------------------- source properties
InSeq(e, sq) == \E j \in DOMAIN sq : sq[j] = e

\* C10: unlogged_entries holds exactly the loaded entries that have an end and
\* are not logged; an entry without an end is active and is in neither
\* unlogged_entries nor unlogged_by_project, and no logged entry is in either.
C10_UnloggedExact ==
    /\ \A i \in DOMAIN loader.entries :
          LET e == loader.entries[i]
              closed_unlogged == e.end # <<>> /\ ~is_logged(loader.kind, e)
          IN /\ e.end = <<>> => is_active(e)
             /\ unlogged.cached => (InSeq(e, unlogged.value) <=> closed_unlogged)
             /\ by_project.computed => (InSeq(e, by_project.value) => closed_unlogged)
    /\ \A j \in DOMAIN unlogged.value : InSeq(unlogged.value[j], loader.entries)
    /\ \A j, k \in DOMAIN unlogged.value : unlogged.value[j] = unlogged.value[k] => j = k

\* C10 witness: a source whose loaded entries include an active one and a
\* logged one has answered unlogged_entries and unlogged_by_project.
C10_Witness ==
    /\ source.built /\ unlogged.cached /\ by_project.computed
    /\ unlogged.value # <<>>
    /\ \E i \in DOMAIN loader.entries :
          loader.entries[i].end = <<>> /\ is_project(loader.entries[i])
    /\ \E i \in DOMAIN loader.entries :
          loader.entries[i].end # <<>> /\ is_logged(loader.kind, loader.entries[i])

\* ------------------------------------------------- flow guards and entries
\* C11: an entry without a matching project is invalid once the flow has left
\* INIT, no step of the flow takes an invalid entry out of invalid or out of
\* the model list, and no request is ever sent for it.
C11_InvalidStep ==
    (mode' = "flow" /\ state' # "INIT") =>
        /\ \A i \in DOMAIN models' :
              ~models'[i].has_project =>
                  models'[i].st = "invalid" /\ models'[i].id \notin attempted'
        /\ (mode = "flow" /\ run' = run) =>
              \A i \in DOMAIN models :
                  models[i].st = "invalid" =>
                      /\ i \in DOMAIN models'
                      /\ models'[i].id = models[i].id
                      /\ models'[i].st = "invalid"

C11_InvalidStays == [][C11_InvalidStep]_vars

\* C11 witness: a committed batch in which one entry was submitted and saved
\* while another, without project, is still listed as invalid.
C11_Witness ==
    /\ mode = "flow" /\ state = "SAVE" /\ committing
    /\ \E i, j \in DOMAIN models :
          /\ models[i].st = "invalid" /\ ~models[i].has_project
          /\ models[j].st = "complete" /\ models[j].id \in attempted

\* C12: when no loaded entry is selectable (none loaded, or all invalid) the
\* guard has_entries is false and the flow is in none of REPOS, COMMITS, DRAFT
\* and SAVE.
C12_NoEntriesGuard ==
    (mode = "flow" /\ state # "INIT" /\ Selectable(models) = {}) =>
        /\ ~has_entries(flags)
        /\ state \notin {"REPOS", "COMMITS", "DRAFT", "SAVE"}

\* C13: a choose event in ENTRIES that advances the flow takes it to REPOS if
\* and only if a repository is associated with the project of a selected
\* entry, and otherwise directly to DRAFT (the tracker flow is never in a
\* draft-only mode).
C13_ChooseStep ==
    (tw_state = "ENTRIES" /\ tw_state' \notin {"ENTRIES", "CANCEL"}) =>
        IF active_repos(tw_models) # {} THEN tw_state' = "REPOS"
        ELSE tw_state' = "DRAFT"

C13_ReposIffRepository == [][C13_ChooseStep]_vars

\* C14: a choose event in REPOS takes the flow to COMMITS or to DRAFT, and to
\* COMMITS only if a repository could be chosen (the project of a selected
\* entry has one); in every other case the flow goes from REPOS to DRAFT.
C14_ChooseStep ==
    (tw_state = "REPOS" /\ tw_state' # "CANCEL" /\ tw_flags' = tw_flags) =>
        /\ tw_err' = "none"
        /\ tw_state' \in {"COMMITS", "DRAFT"}
        /\ tw_state' = "COMMITS" => active_repos(tw_models) # {}

C14_ReposToCommitsOrDraft == [][C14_ChooseStep]_vars

\* C15: while DRY_RUN is set, a choose event in DRAFT takes the flow to CANCEL:
\* a dry-run flow that leaves DRAFT never enters SAVE.
C15_DryRunStep ==
    (/\ mode = "flow" /\ mode' = "flow" /\ run' = run
     /\ dry_run(flags) /\ state = "DRAFT" /\ state' # "DRAFT")
    => state' = "CANCEL"

C15_DryRunEndsInCancel == [][C15_DryRunStep]_vars

\* C15 (as the code has it): while DRY_RUN is set, a choose event in DRAFT
\* takes the flow to SAVE without asking for confirmation; there commit_drafts
\* completes every drafted entry without error, sends no request and saves
\* nothing.
C15_DryRunSaveStep ==
    (/\ mode = "flow" /\ mode' = "flow" /\ run' = run
     /\ dry_run(flags) /\ state = "DRAFT" /\ state' \notin {"DRAFT", "CANCEL"})
    => /\ state' = "SAVE"
       /\ confirmed' = confirmed
       /\ err' = "none"
       /\ attempted' = {} /\ remote' = remote /\ store' = store
       /\ \A i \in DOMAIN models :
             models[i].st = "draft" => models'[i].st = "complete"

C15_DryRunSavesNothing == [][C15_DryRunSaveStep]_vars

\* C15 witness: a dry-run flow is in SAVE, unprompted and not cancelled, with
\* one entry completed, another skipped, and no request sent.
C15_Witness ==
    /\ mode = "flow" /\ dry_run(flags) /\ state = "SAVE" /\ committing
    /\ confirmed = "none" /\ ~cancelled /\ err = "none" /\ attempted = {}
    /\ \E i, j \in DOMAIN models :
          models[i].st = "complete" /\ models[j].st = "skipped"

\* C16: when the editor returns no text for an entry during create_drafts, the
\* operation aborts with the flow in CANCEL (and so in neither DRAFT nor SAVE).
C16_EditAbortCancels == tw_err = "Abort" => tw_state = "CANCEL"

\* C17: for a tracker entry carrying a drafted:<id> tag no create request is
\* sent: the remote keeps the single time entry <id> it already holds for it,
\* however often the command is run again.
C17_DraftedNeverCreated ==
    \A e \in drafted : e \notin attempted /\ remote["timew"][e] = 1

\* C18: every commit contained in a saved LogEntry has logged = true, and a
\* commit has logged = true only if a saved LogEntry contains it.
C18_SavedIffLogged == c_saved = c_logged

\* C19: when the project resolves to no remote project anywhere up its parent
\* chain, committing the chosen entries fails with an explicit
\* missing-remote-project error, and no request is sent.
C19_MissingRemoteProject ==
    (/\ mode = "log" /\ committing /\ models # <<>>
     /\ ~resolve_teamwork_project(project))
    => err = "MissingRemoteProject" /\ attempted = {}

\* C20: a commit whose summary does not match parse_commit's grammar is
\* excluded downstream: iter_commits_by_author yields nothing for it, the
\* commit prompt offers no choice for it, and the distribution pool (from which
\* the buckets and changelogs are built) does not hold it.
C20_UnparsedExcluded ==
    \A i \in DOMAIN git_log :
        ~git_log[i].parses =>
            /\ \A k \in DOMAIN c_yielded : c_yielded[k].pos # i
            /\ \A k \in DOMAIN c_offered : c_offered[k].pos # i
            /\ \A k \in DOMAIN c_pool : c_pool[k].pos # i

\* C21: parse_commit is idempotent per commit: no second CommitEntry is
\* constructed for a sha, and a call for a sha already seen returns the
\* logged value the first call returned.
C21_ParseIdempotent ==
    /\ \A c \in RepoCommits : ce_created[c] <= 1
    /\ (ce_ret.called /\ ce_ret.entry /\ ce_ret.seen) => ce_first[ce_ret.sha] = <<ce_ret.logged>>

\* The scan C22 describes, over the commits at positions ps: every commit is
\* yielded in order until n consecutive logged ones have been yielded; a
\* commit that is not logged puts the count back to 0.
RECURSIVE ConsecutiveScan(_, _, _, _, _, _)
ConsecutiveScan(log, ps, k, streak, n, acc) ==
    IF k > Len(ps) \/ streak >= n THEN acc
    ELSE ConsecutiveScan(log, ps, k + 1,
                         IF log[ps[k]].logged THEN streak + 1 ELSE 0,
                         n, Append(acc, parse_commit(log, ps[k])))

OwnConventional(log) == \A i \in DOMAIN log : log[i].grep /\ log[i].author /\ log[i].parses

\* C22: over a history of the author's own conventional commits,
\* iter_commits_by_author yields the commits in git-log order and stops once
\* unlogged_context consecutive already-logged commits have been yielded, a
\* commit that is not logged restarting the count.
C22_StopsAfterConsecutiveLogged ==
    ("iter" \in c_done /\ OwnConventional(git_log))
        => c_yielded = ConsecutiveScan(git_log, [i \in 1..Len(git_log) |-> i], 1, 0,
                                       c_args.unlogged_context, <<>>)

\* The rows resolve_tags is to visit for a project: the row itself, then the
\* row its parent refers to, and so on, at most k of them.
RECURSIVE ChainOf(_, _, _)
ChainOf(t, name, k) ==
    IF k = 0 THEN <<>>
    ELSE IF t[name].parent = <<>> THEN <<name>>
    ELSE <<name>> \o ChainOf(t, t[name].parent[1], k - 1)

RECURSIVE TagsAlong(_, _)
TagsAlong(t, chain) ==
    IF chain = <<>> THEN <<>> ELSE t[chain[1]].tags \o TagsAlong(t, Tail(chain))

\* C23: for every project of the table, resolve_tags comes to its end after
\* visiting no more rows than the name has segments, and yields the project's
\* own tags in order, then those of each ancestor from the parent up to the root.
C23_ResolveTagsOrdered ==
    \A name \in DOMAIN p_table :
        LET r == resolve_tags(p_table, name, MaxSegments + 1)
            chain == ChainOf(p_table, name, MaxSegments + 1)
        IN /\ r.done
           /\ r.depth <= Len(name)
           /\ \A i \in 1..(Len(chain) - 1) : Len(chain[i + 1]) < Len(chain[i])
           /\ r.tags = TagsAlong(p_table, chain)

\* A tagged project below a tagged parent has been added.
C23_Witness ==
    \E name \in DOMAIN p_table :
        /\ p_table[name].tags # <<>>
        /\ p_table[name].parent # <<>>
        /\ p_table[p_table[name].parent[1]].tags # <<>>

\* The proper prefixes of a dotted name and the name itself.
Prefixes(name) == {SubSeq(name, 1, k) : k \in 1..Len(name)}

\* C24: after `project add` or validate_parent on a project, a project exists
\* for every dotted prefix of its name, each of them has the project named by
\* its own name minus the last segment as its parent, and the root of the
\* chain has no parent.
C24_ChainMatchesName ==
    p_last.op \in {"add", "validate"} =>
        \A q \in Prefixes(p_last.name) :
            /\ q \in DOMAIN p_table
            /\ p_table[q].parent = IF Len(q) = 1 THEN <<>> ELSE <<parent_name(q)>>

\* The number a string of decimal digits stands for.
RECURSIVE int(_)
int(ds) == IF ds = <<>> THEN 0 ELSE 10 * int(SubSeq(ds, 1, Len(ds) - 1)) + ds[Len(ds)]

\* C25: the hours and minutes of the request split the entry's duration:
\* 0 <= minutes < 60 and hours * 60 + minutes is the duration in whole minutes.
C25_HoursMinutesSplit ==
    te_req # <<>> =>
        /\ int(te_req[1].minutes) \in 0..59
        /\ int(te_req[1].hours) * 60 + int(te_req[1].minutes) = te_secs \div 60

\* The documents of the Config table that belong to a profile.
ConfigDocs(p) == SelectSeq(cfg_table, LAMBDA d : d["PROFILE"] = p)

\* C26: Config.save is an upsert keyed by PROFILE: a profile that was saved
\* has exactly one record, which holds every config field and equals the
\* data of the last save; a profile never saved has none.
C26_ConfigUpsertByProfile ==
    \A p \in Profiles :
        IF cfg_last[p] = <<>> THEN ConfigDocs(p) = <<>>
        ELSE /\ ConfigDocs(p) = cfg_last[p]
             /\ DOMAIN cfg_last[p][1] = ConfigFields

\* Both profiles have been saved, the default one with a changed API_KEY.
C26_Witness ==
    /\ cfg_last["work"] # <<>>
    /\ cfg_last["default"] # <<>>
    /\ cfg_last["default"][1]["API_KEY"] # <<"None", 0>>
    /\ Len(cfg_table) = 2

\* C27: save of a model that keeps TableModel.query is an upsert by name: the
\* table never holds two records with the same name.
C27_OneRecordPerName ==
    \A i, j \in DOMAIN tm_table : tm_table[i].name = tm_table[j].name => i = j

\* A filter returns true for a record: the record's tags decide it.
Excluded(f, r) ==
    IF f = "not_project" THEN "proj" \notin r.tags ELSE "logged" \in r.tags

\* C28: load yields exactly the records that carry the @work tag and for
\* which every filter returns false, in export order.
C28_YieldsWorkUnfiltered ==
    ex_out.done =>
        ex_out.out = SelectSeq(ex_data, LAMBDA r :
                         /\ "@work" \in r.tags
                         /\ \A k \in DOMAIN ex_filters : ~Excluded(ex_filters[k], r))

\* The set of the values of one call.
ValuesOf(values) == {values[i] : i \in DOMAIN values}

\* What a tag method is said to return for a receiver and its values.
TagsAfter(op, tags, values) ==
    IF op = "remove_tag" THEN tags \ ValuesOf(values) ELSE tags \cup ValuesOf(values)

\* C29: a tag method returns an entry whose tags are the receiver's tags with
\* the values added (add_tag, add_tags) or removed (remove_tag), leaves the
\* receiver as it was, and add_tag / remove_tag issue the matching tag / untag
\* command for the entry's id.
C29_TagFunctionalUpdate ==
    [][tg_call' # tg_call =>
        /\ tg_self' = tg_self
        /\ tg_ret' = <<[tg_self EXCEPT
                            !.tags = TagsAfter(tg_call'.op, @, tg_call'.values)]>>
        /\ tg_call'.op = "add_tag" =>
              tg_cmds' = Append(tg_cmds, timew("tag", tg_self.id, tg_call'.values[1]))
        /\ tg_call'.op = "remove_tag" =>
              tg_cmds' = Append(tg_cmds, timew("untag", tg_self.id, tg_call'.values[1]))]_vars

\* The positions of the entry models in draft.
Drafts(ms) == {i \in DOMAIN ms : ms[i].st = "draft"}

\* The CSV flow's steps to DRAFT and to SAVE in a non-dry-run flow whose
\* confirmation is accepted and whose requests are all answered "OK": the
\* selected entries go from init to draft in the first, and from draft over
\* published (the first dispatch of commit_drafts) to complete in the second,
\* each with its LogEntry saved, and no event is rejected.
CsvPassesInOrder ==
    /\ (mode = "flow" /\ state = "ENTRIES" /\ state' = "DRAFT" /\ ~dry_run(flags)) =>
          /\ err' = "none"
          /\ \A i \in DOMAIN models :
                Selected(models[i]) => models[i].st = "init" /\ models'[i].st = "draft"
    /\ (/\ mode = "flow" /\ state = "DRAFT" /\ state' = "SAVE" /\ ~dry_run(flags)
        /\ confirmed' = "yes"
        /\ \A e \in attempted' : resp'[e] = "OK") =>
          /\ err' = "none"
          /\ \A i \in Drafts(models) :
                /\ create_drafts(models, flags, resp', remote["csv"],
                                 store["csv"]).models[i].st = "published"
                /\ models'[i].st = "complete"
                /\ models[i].id \in store'["csv"]

\* The same for the tracker flow's step to SAVE.
TwPassesInOrder ==
    (/\ tw_state = "DRAFT" /\ tw_state' = "SAVE" /\ ~dry_run(tw_flags)
     /\ tw_err' \notin {"HTTPError", "RuntimeError"}) =>
          /\ tw_err' = "none"
          /\ \A i \in Drafts(tw_models) :
                /\ tw_models'[i].st = "complete"
                /\ tw_models[i].id \in store'["timew"]

\* C30: in a non-dry-run flow in which the user selects a valid entry and
\* confirms and every request succeeds, every selected entry passes from init
\* to draft to published to complete and ends complete after commit_drafts
\* with its LogEntry saved, in the CSV flow and in the tracker flow alike, and
\* no "next" event the flow dispatches is rejected.
C30_PassesInOrder == [][CsvPassesInOrder /\ TwPassesInOrder]_vars

\* C31: every entry whose submission the remote answered with "OK" has its
\* LogEntry persisted, also when the submission of a later entry of the same
\* batch failed.
C31_SubmittedAreSaved ==
    \A e \in attempted : resp[e] = "OK" => e \in store[Src]

\* C32: in a flow that is not a dry run, an entry is published or complete
\* only if the remote answered its request with "OK" and the response is kept
\* in teamw_response; an entry whose request failed is not published.
C32_PublishedOnlyIfOK ==
    (mode = "flow" /\ ~dry_run(flags)) =>
        \A i \in DOMAIN models :
            /\ models[i].st \in {"published", "complete"} =>
                  models[i].teamw_response = "OK"
            /\ (models[i].id \in attempted /\ resp[models[i].id] # "OK") =>
                  models[i].st # "published"

\* The places of the attached commits: <<k, j>> is the j-th commit attached to
\* entry k's log entry.
AttachedSlots == UNION {{<<k, j>> : j \in DOMAIN d_attached[k]} : k \in DOMAIN d_attached}

\* C33: after the tracker flow's create_drafts with distribution, every chosen
\* commit is attached to the log entry of exactly one active entry, also when
\* distribute_commits gave some active entry no commit.
C33_AttachedExactlyOnce ==
    (d_by = "flow" /\ d_err = "none") =>
        \A c \in DOMAIN d_commits :
            Cardinality({s \in AttachedSlots : d_attached[s[1]][s[2]] = d_commits[c]}) = 1

\* One step of a flow as an unselected valid entry sees it: ms2 are the entry
\* models after the step, res the entries ticked in choose_entries, and rem,
\* rem2, sto, sto2 the remote's time entries and the saved LogEntries before
\* and after.  The entry is not in draft, published or complete, nothing is
\* sent for it and nothing is saved; with skipping it is in skipped.
UnselectedLeftAlone(ms2, res, rem, rem2, sto, sto2, skipping) ==
    \A i \in DOMAIN ms2 :
        (ms2[i].st # "invalid" /\ ms2[i].id \notin res) =>
            /\ skipping => ms2[i].st = "skipped"
            /\ ms2[i].st \notin {"draft", "published", "complete"}
            /\ rem2[ms2[i].id] = rem[ms2[i].id]
            /\ ms2[i].id \in sto2 => ms2[i].id \in sto

\* The steps of a run of the CSV flow and of the tracker flow once
\* choose_entries has run.
CsvChosen == mode' = "flow" /\ run' = run /\ state' # "INIT"

TwChosen == tw_state' # "INIT"

\* C34 as stated: every valid entry that was not selected in choose_entries
\* is skipped and stays so under every later step; it is never drafted,
\* submitted or saved.
C34_UnselectedSkipped ==
    [][/\ CsvChosen => UnselectedLeftAlone(models', results', remote["csv"], remote'["csv"],
                                           store["csv"], store'["csv"], TRUE)
       /\ TwChosen => UnselectedLeftAlone(tw_models', tw_results', remote["timew"],
                                          remote'["timew"], store["timew"],
                                          store'["timew"], TRUE)]_vars

\* C34, amended: after a selection that is not empty every valid entry that
\* was not selected is skipped and stays so; after an empty selection the flow
\* is cancelled and the entries stay as they were; in both cases an entry that
\* was not selected is never drafted, submitted or saved.
C34_UnselectedNeverDrafted ==
    [][/\ CsvChosen => UnselectedLeftAlone(models', results', remote["csv"], remote'["csv"],
                                           store["csv"], store'["csv"], results' # {})
       /\ TwChosen => UnselectedLeftAlone(tw_models', tw_results', remote["timew"],
                                          remote'["timew"], store["timew"],
                                          store'["timew"], tw_results' # {})
       /\ (CsvChosen /\ results' = {}) => state' = "CANCEL"
       /\ (TwChosen /\ tw_results' = {}) => tw_state' = "CANCEL"]_vars

\* C34 witness: a batch of the CSV flow has been committed in which one valid
\* entry was selected, submitted and saved and another valid entry, not
\* selected, is skipped.
C34_Witness ==
    /\ mode = "flow" /\ state = "SAVE" /\ committing /\ err = "none"
    /\ \E i, j \in DOMAIN models :
          /\ models[i].id \in results /\ models[i].st = "complete"
          /\ models[i].id \in store["csv"]
          /\ models[j].has_project /\ models[j].id \notin results
          /\ models[j].st = "skipped"

\* C35: one log create run creates at most one time entry at the remote for
\* each selected entry, in replicate mode and in distribute mode, whatever the
\* number of chosen repositories.
C35_SubmittedOncePerRun ==
    [][(mode = "log" /\ mode' = "log") =>
          \A e \in Entries : remote'["timew"][e] <= remote["timew"][e] + 1]_vars

\* C36: when fewer logged commits are met than unlogged_context,
\* iter_commits_by_author comes to its end and yields every commit of the
\* author in the log exactly once, in log order, for every batch_size and also
\* when a whole batch holds no commit of the author.
C36_YieldsEveryAuthorCommit ==
    (/\ "iter" \in c_done
     /\ Cardinality({k \in DOMAIN c_yielded : c_yielded[k].logged})
            < c_args.unlogged_context) =>
        c_yielded = author_commits(git_log)

\* C37: the dry_run setter changes only the DRY_RUN flag: after
\* flow.dry_run = value the property dry_run reads value, and every other flag
\* of the context keeps its previous value, on the CSV flow and on the tracker
\* flow alike.
C37_SetterChangesOnlyDryRun ==
    [][\A value \in BOOLEAN :
          /\ (SetDryRun(value) /\ err' = "none") =>
                /\ dry_run(flags') = value
                /\ flags' \ {"DRY_RUN"} = flags \ {"DRY_RUN"}
          /\ TwSetDryRun(value) =>
                /\ dry_run(tw_flags') = value
                /\ tw_flags' \ {"DRY_RUN"} = tw_flags \ {"DRY_RUN"}]_vars

\* The source built and rebuilt from one loader, the CSV file present or not.
InitReload == InitSource

NextReload ==
    \/ \E filter_logged, path_exists \in BOOLEAN : FromLoaderAt(filter_logged, path_exists)
    \/ ReadUnlogged

SpecReload == InitReload /\ [][NextReload]_vars

\* C38: a from_loader call whose populate raises leaves the loader unloaded
\* with its entries unchanged, and a later from_loader call with the same
\* loader runs the load again: the source it returns holds what load yields.
C38_FailedLoadIsRetried ==
    [][\A filter_logged, path_exists \in BOOLEAN :
          FromLoaderAt(filter_logged, path_exists) =>
             /\ source'.err # "none" =>
                   ~loader'.loaded /\ loader'.entries = loader.entries
             /\ (source.err # "none" /\ source'.built) =>
                   loader'.entries = load(loader.kind, loader.data, filter_logged)]_vars

====
